---------------------------- MODULE Spec2Model ----------------------------
(***************************************************************************)
(* Ingestion and reconciliation engine of sydney-events:                   *)
(*   backend/app/scrapers/scraper_manager.py  (ScraperManager)             *)
(*   backend/app/scrapers/base.py             (BaseScraper)                *)
(*   backend/app/routers/events.py            (import_event, unimport)     *)
(*   backend/app/models.py                    (Event, ScrapeLog)           *)
(*                                                                         *)
(* The events table is a sequence of rows (row i has id i: ids are         *)
(* autoincremented and the engine deletes nothing).  `events_tbl` is the   *)
(* table as the unit of work of the running cycle sees it, `committed` the *)
(* durable table.  Time is a logical clock that ticks once per cycle.      *)
(***************************************************************************)
EXTENDS Integers, Sequences, FiniteSets, TLC

VARIABLES
    pages,            \* what each site serves (the world outside the program)
    pc,               \* position of run_all_scrapers ("idle" between cycles)
    now,              \* datetime.utcnow(), a logical clock
    events_tbl,       \* events table as the session of the cycle sees it
    committed,        \* events table as durably committed
    event_imports,    \* event_imports table (rows of EventImport)
    runs,             \* run_all_scrapers calls that overlap, per caller
    results,          \* run_all_scrapers: results
    all_scraped_urls, \* run_all_scrapers: all_scraped_urls
    idx,              \* index into self.scrapers of the loop
    events,           \* run_all_scrapers: events (scraper.scrape() result)
    logs,             \* ScrapeLog rows added by the cycle, one per source
    scraped,          \* the scrape() calls of the cycle and what each returned
    prev_scraped,     \* `scraped` of the cycle before, where a caller kept it
    cycles            \* number of cycles started

vars == <<pages, pc, now, events_tbl, committed, event_imports, runs, results,
          all_scraped_urls, idx, events, logs, scraped, prev_scraped, cycles>>

\* ------------------------------------------------------------------ bounds
\* Number of ingestion cycles explored.
MaxCycles == 3
\* Largest number of records all adapters together return in one cycle.
MaxFound == 2

\* ------------------------------------------------------------ Python values
\* Python's None for a text field; a value no page text can take.
None == "<null>"
\* NULL of a DateTime / Integer column (imported_at, imported_by_id).
NullInt == 0

\* Python truthiness of a text value: None and '' are falsy.
Truthy(v) == v # None /\ v # ""

\* str() as an f-string applies it: None renders as the text 'None'.
Str(v) == IF v = None THEN "None" ELSE v

\* EventStatus
S_NEW == "new"
S_UPDATED == "updated"
S_INACTIVE == "inactive"
S_IMPORTED == "imported"
EventStatus == {S_NEW, S_UPDATED, S_INACTIVE, S_IMPORTED}

\* ScraperManager.scrapers, in the configured order (source_name of each).
Scrapers == <<"Eventbrite", "Meetup">>

\* Mutant of generate_content_hash: the image is hashed as well.
generate_content_hash_image(event) ==
    Str(event.title) \o Str(event.date_string) \o Str(event.venue_name)
        \o Str(event.description) \o Str(event.image_url)

\* BaseScraper.generate_content_hash: SHA-256 of the concatenation of the
\* four fields.  SHA-256 is modelled as injective on its input (collision
\* resistance), so the digest is the concatenated text itself.
generate_content_hash(event) ==
    Str(event.title) \o Str(event.date_string) \o Str(event.venue_name)
        \o Str(event.description)

\* The event dict an adapter builds from one extracted item (the _parse_*
\* methods): the item's fields, the adapter's source_name, city 'Sydney',
\* and the content hash over the dict.
MakeEvent(source_name, item) ==
    LET event == [title         |-> item.title,
                  date_string   |-> item.date_string,
                  date_time     |-> None,
                  venue_name    |-> item.venue_name,
                  venue_address |-> None,
                  city          |-> "Sydney",
                  description   |-> item.description,
                  category      |-> None,
                  tags          |-> None,
                  image_url     |-> item.image_url,
                  source_name   |-> source_name,
                  source_url    |-> item.source_url]
    IN  [k \in DOMAIN event \cup {"content_hash"} |->
            IF k = "content_hash" THEN generate_content_hash(event)
            ELSE event[k]]

\* One item an adapter extracts from a page.  An adapter keeps an item only
\* `if title and source_url`.
Item(t, d, v, i, u) ==
    [title |-> t, date_string |-> d, venue_name |-> v, description |-> None,
     image_url |-> i, source_url |-> u]

\* What the sites serve: per source, the items its pages can hold.  The two
\* sources list different URLs, and one URL ("u1") is listed by both.
MainPages ==
    [src \in {"Eventbrite", "Meetup"} |->
        IF src = "Eventbrite"
        THEN { Item("a", "", None, "i1", "u1"), Item("ab", "", None, "i1", "u1") }
        ELSE { Item("a", "", None, "i1", "u2"), Item("a", "", None, "i1", "u1") }]

\* Pages on which the venue of an event is missing (None) or is the text
\* 'None', and on which its title varies.
FieldPages ==
    [src \in {"Eventbrite", "Meetup"} |->
        IF src = "Eventbrite"
        THEN { Item("a", "", None, "i1", "u1"), Item("a", "", "None", "i1", "u1"),
               Item("ab", "", None, "i1", "u1") }
        ELSE {}]

\* dict.get(key): None when the key is missing.
Get(d, k) == IF k \in DOMAIN d THEN d[k] ELSE None

\* ------------------------------------------------------------- Reconciler
\* Mutant of Lookup: the query sees the committed rows only, not the rows
\* the unit of work has added and not yet flushed.
LookupUnflushed(tbl, source_url) ==
    { i \in 1..Len(tbl) : i <= Len(committed) /\ tbl[i].source_url = source_url }

\* select(Event).where(Event.source_url == source_url): the ids of the rows
\* the session sees for the URL (a pending insert of the same unit of work
\* is flushed before the query runs).
Lookup(tbl, source_url) == { i \in 1..Len(tbl) : tbl[i].source_url = source_url }

\* Mutant of Protected: the import columns are missing from the list.
ProtectedNoImport == {"id", "first_seen_at"}

\* Keys the update loop of _process_events never sets.
Protected == {"id", "first_seen_at", "is_imported", "imported_at",
              "imported_by_id", "import_notes"}

\* Mutant of UpdateEvent: the fields of the record are set and the row
\* keeps the content_hash it had.
UpdateEventStaleHash(existing_event, event_data, t) ==
    LET set == [k \in DOMAIN existing_event |->
                   IF k \in DOMAIN event_data /\ k \notin Protected
                      /\ k # "content_hash"
                   THEN event_data[k] ELSE existing_event[k]]
    IN  [set EXCEPT !.status = S_UPDATED, !.last_scraped_at = t]

\* _process_events, existing row, content hash differs: every key of the
\* dict that is an attribute of the row and not protected is set, then
\* status and last_scraped_at.
UpdateEvent(existing_event, event_data, t) ==
    LET set == [k \in DOMAIN existing_event |->
                   IF k \in DOMAIN event_data /\ k \notin Protected
                   THEN event_data[k] ELSE existing_event[k]]
    IN  [set EXCEPT !.status = S_UPDATED, !.last_scraped_at = t]

\* Mutant of TouchEvent: every row that is listed again becomes updated.
TouchMarksUpdated(existing_event, t) ==
    [existing_event EXCEPT !.last_scraped_at = t, !.status = S_UPDATED]

\* Mutant of TouchEvent: an inactive row that is listed again stays
\* inactive.
TouchOnly(existing_event, t) == [existing_event EXCEPT !.last_scraped_at = t]

\* _process_events, existing row, content hash equal: last_scraped_at is
\* set, and an inactive row becomes updated.
TouchEvent(existing_event, t) ==
    [existing_event EXCEPT
        !.last_scraped_at = t,
        !.status = IF @ = S_INACTIVE THEN S_UPDATED ELSE @]

\* Mutant of NewEvent: the row is created with the time of its creation
\* missing from first_seen_at.
NewEventUndated(id, event_data, source_name, t) ==
    [id              |-> id,
     title           |-> Get(event_data, "title"),
     date_time       |-> Get(event_data, "date_time"),
     date_string     |-> Get(event_data, "date_string"),
     venue_name      |-> Get(event_data, "venue_name"),
     venue_address   |-> Get(event_data, "venue_address"),
     city            |-> IF "city" \in DOMAIN event_data
                         THEN event_data["city"] ELSE "Sydney",
     description     |-> Get(event_data, "description"),
     category        |-> Get(event_data, "category"),
     tags            |-> Get(event_data, "tags"),
     image_url       |-> Get(event_data, "image_url"),
     source_name     |-> source_name,
     source_url      |-> Get(event_data, "source_url"),
     content_hash    |-> Get(event_data, "content_hash"),
     status          |-> S_NEW,
     first_seen_at   |-> NullInt,
     last_scraped_at |-> t,
     is_imported     |-> FALSE,
     imported_at     |-> NullInt,
     imported_by_id  |-> NullInt,
     import_notes    |-> None]

\* _process_events, no row for the URL: Event(...) with the column defaults
\* of models.Event for what the constructor is not given.
NewEvent(id, event_data, source_name, t) ==
    [id              |-> id,
     title           |-> Get(event_data, "title"),
     date_time       |-> Get(event_data, "date_time"),
     date_string     |-> Get(event_data, "date_string"),
     venue_name      |-> Get(event_data, "venue_name"),
     venue_address   |-> Get(event_data, "venue_address"),
     city            |-> IF "city" \in DOMAIN event_data
                         THEN event_data["city"] ELSE "Sydney",
     description     |-> Get(event_data, "description"),
     category        |-> Get(event_data, "category"),
     tags            |-> Get(event_data, "tags"),
     image_url       |-> Get(event_data, "image_url"),
     source_name     |-> source_name,
     source_url      |-> Get(event_data, "source_url"),
     content_hash    |-> Get(event_data, "content_hash"),
     status          |-> S_NEW,
     first_seen_at   |-> t,
     last_scraped_at |-> t,
     is_imported     |-> FALSE,
     imported_at     |-> NullInt,
     imported_by_id  |-> NullInt,
     import_notes    |-> None]

\* Mutant of ProcessOne: an inactive row listed again with the same
\* content hash is not counted as updated.
ProcessOneUncounted(st, event_data, source_name, t) ==
    LET source_url == Get(event_data, "source_url")
        hits == Lookup(st.tbl, source_url)
    IN  IF ~Truthy(source_url) THEN st
        ELSE IF Cardinality(hits) > 1 THEN st
        ELSE IF hits # {} THEN
            LET i == CHOOSE j \in hits : TRUE
                existing_event == st.tbl[i]
            IN  IF existing_event.content_hash # Get(event_data, "content_hash")
                THEN [st EXCEPT
                        !.tbl[i] = UpdateEvent(existing_event, event_data, t),
                        !.updated = @ + 1]
                ELSE [st EXCEPT !.tbl[i] = TouchEvent(existing_event, t)]
        ELSE [st EXCEPT
                !.tbl = Append(@, NewEvent(Len(@) + 1, event_data, source_name, t)),
                !.new = @ + 1]

\* One iteration of the loop of _process_events over st = [tbl, new,
\* updated].  scalar_one_or_none() raises on several rows; the except of
\* the iteration swallows it and the record is skipped.
ProcessOne(st, event_data, source_name, t) ==
    LET source_url == Get(event_data, "source_url")
        hits == Lookup(st.tbl, source_url)
    IN  IF ~Truthy(source_url) THEN st
        ELSE IF Cardinality(hits) > 1 THEN st
        ELSE IF hits # {} THEN
            LET i == CHOOSE j \in hits : TRUE
                existing_event == st.tbl[i]
            IN  IF existing_event.content_hash # Get(event_data, "content_hash")
                THEN [st EXCEPT
                        !.tbl[i] = UpdateEvent(existing_event, event_data, t),
                        !.updated = @ + 1]
                ELSE [st EXCEPT
                        !.tbl[i] = TouchEvent(existing_event, t),
                        !.updated = IF existing_event.status = S_INACTIVE
                                    THEN @ + 1 ELSE @]
        ELSE [st EXCEPT
                !.tbl = Append(@, NewEvent(Len(@) + 1, event_data, source_name, t)),
                !.new = @ + 1]

RECURSIVE ProcessFrom(_, _, _, _, _)
ProcessFrom(st, evs, n, source_name, t) ==
    IF n > Len(evs) THEN st
    ELSE ProcessFrom(ProcessOne(st, evs[n], source_name, t), evs, n + 1,
                     source_name, t)

\* ScraperManager._process_events: the table after the loop, and the
\* counts it returns.
process_events(tbl, evs, source_name, t) ==
    ProcessFrom([tbl |-> tbl, new |-> 0, updated |-> 0], evs, 1, source_name, t)

\* ------------------------------------------------------- Staleness Marker
\* Mutant of StaleIds: the select leaves out the inactive rows only, not
\* the imported ones.
StaleIdsImported(tbl, active_urls) ==
    { i \in 1..Len(tbl) :
        /\ tbl[i].status # S_INACTIVE
        /\ tbl[i].source_url \notin active_urls }

\* Rows _mark_inactive_events selects and finds missing from active_urls.
StaleIds(tbl, active_urls) ==
    { i \in 1..Len(tbl) :
        /\ tbl[i].status \notin {S_INACTIVE, S_IMPORTED}
        /\ tbl[i].source_url \notin active_urls }

\* Mutant of mark_inactive_events: the count is that of the rows selected,
\* not of the rows marked.
mark_inactive_count_selected(tbl, active_urls) ==
    [tbl |-> [i \in 1..Len(tbl) |->
                 IF i \in StaleIds(tbl, active_urls)
                 THEN [tbl[i] EXCEPT !.status = S_INACTIVE] ELSE tbl[i]],
     inactive_count |-> Cardinality({ i \in 1..Len(tbl) :
                            tbl[i].status \notin {S_INACTIVE, S_IMPORTED} })]

\* Mutant of mark_inactive_events: the stale rows are deleted.
mark_inactive_delete(tbl, active_urls) ==
    [tbl |-> SelectSeq(tbl, LAMBDA row :
                 \/ row.status \in {S_INACTIVE, S_IMPORTED}
                 \/ row.source_url \in active_urls),
     inactive_count |-> Cardinality(StaleIds(tbl, active_urls))]

\* ScraperManager._mark_inactive_events: the table after it and its count.
mark_inactive_events(tbl, active_urls) ==
    [tbl |-> [i \in 1..Len(tbl) |->
                 IF i \in StaleIds(tbl, active_urls)
                 THEN [tbl[i] EXCEPT !.status = S_INACTIVE] ELSE tbl[i]],
     inactive_count |-> Cardinality(StaleIds(tbl, active_urls))]

\* ---------------------------------------------------------------- adapters
\* Results scrape() of the adapter named source_name can return with at
\* most n records, the site serving the items in `served`: any sequence of
\* them (the JSON paths of the adapters append without comparing URLs).
Listings(source_name, served, n) ==
    UNION { [1..k -> { MakeEvent(source_name, it) : it \in served }] : k \in 0..n }

\* Users that can call the import routes, and the notes they send.
Users == {1}
Notes == {"n"}

NoResults == [total_found |-> 0, new |-> 0, updated |-> 0, inactive |-> 0,
              errors |-> <<>>]

\* The callers of run_all_scrapers, each with a session of its own: the
\* scheduler job and the route POST /scraper/run.
Callers == {"scheduled_scrape", "run_scrapers"}

\* No column of a row changed; no row changed.
NoColumns == [k \in {} |-> None]
NoMods == [i \in {} |-> NoColumns]

\* A caller that is not in run_all_scrapers.  Of a call: its position, its
\* locals, what its session has read for the statement it is at (seen, and
\* base, the number of committed rows among them), what it has flushed and
\* not committed (mods: changed columns by row id; added: inserted rows),
\* whether its session refuses statements (broken), the URLs it counted as
\* new; and of the caller, the summaries it has been returned and whether
\* it has made its call.
IdleRun == [pc |-> "idle", results |-> NoResults, urls |-> {}, logs |-> <<>>,
            idx |-> 0, events |-> <<>>, t |-> 0, seen |-> <<>>, base |-> 0,
            mods |-> NoMods, added |-> <<>>, broken |-> FALSE, inserted |-> {},
            summaries |-> <<>>, entered |-> FALSE]

NoRuns == [c \in Callers |-> IdleRun]

\* The process after start-up: no cycle has run, the table is empty.
InitEngine ==
    /\ pc = "idle"
    /\ now = 0
    /\ events_tbl = <<>>
    /\ committed = <<>>
    /\ results = NoResults
    /\ all_scraped_urls = {}
    /\ idx = 0
    /\ events = <<>>
    /\ logs = <<>>
    /\ scraped = <<>>
    /\ prev_scraped = <<>>
    /\ cycles = 0
    /\ event_imports = {}
    /\ runs = NoRuns

Init == pages = MainPages /\ InitEngine

\* ------------------------------------------------------------ Orchestrator
\* ScrapeLog(source_name=..., started_at=utcnow()) with the column defaults.
NewLog(source_name, t) ==
    [source_name |-> source_name, started_at |-> t, finished_at |-> NullInt,
     events_found |-> 0, events_new |-> 0, events_updated |-> 0,
     events_inactive |-> 0, status |-> "running", error_message |-> None]

\* The URLs the loop over events adds to all_scraped_urls.
ScrapedUrls(evs) ==
    { evs[n].source_url :
        n \in { m \in 1..Len(evs) : Truthy(Get(evs[m], "source_url")) } }

\* What the body of the loop of run_all_scrapers works on: the table, the
\* results dict, all_scraped_urls, the logs and the position of the loop.
Ctx == [tbl |-> events_tbl, results |-> results, urls |-> all_scraped_urls,
        logs |-> logs, idx |-> idx]

\* Mutant of RunCompleted: the Staleness Marker runs at the end of the try
\* block of each source, on the URLs collected so far.
RunCompletedMarks(c, i, evs, t) ==
    LET scraper_results == process_events(c.tbl, evs, Scrapers[i], t)
    IN  [tbl     |-> mark_inactive_events(scraper_results.tbl,
                                          c.urls \cup ScrapedUrls(evs)).tbl,
         logs    |-> [c.logs EXCEPT ![i].finished_at = t,
                                    ![i].events_found = Len(evs),
                                    ![i].events_new = scraper_results.new,
                                    ![i].events_updated = scraper_results.updated,
                                    ![i].status = "completed"],
         results |-> [c.results EXCEPT
                        !.total_found = @ + Len(evs),
                        !.new = @ + scraper_results.new,
                        !.updated = @ + scraper_results.updated],
         urls    |-> c.urls \cup ScrapedUrls(evs),
         idx     |-> i + 1]

\* Mutant of RunCompleted: the log is given the totals of the cycle so
\* far, not the counts of its source.
RunCompletedTotals(c, i, evs, t) ==
    LET scraper_results == process_events(c.tbl, evs, Scrapers[i], t)
    IN  [tbl     |-> scraper_results.tbl,
         logs    |-> [c.logs EXCEPT ![i].finished_at = t,
                                    ![i].events_found = c.results.total_found + Len(evs),
                                    ![i].events_new = c.results.new + scraper_results.new,
                                    ![i].events_updated =
                                        c.results.updated + scraper_results.updated,
                                    ![i].status = "completed"],
         results |-> [c.results EXCEPT
                        !.total_found = @ + Len(evs),
                        !.new = @ + scraper_results.new,
                        !.updated = @ + scraper_results.updated],
         urls    |-> c.urls \cup ScrapedUrls(evs),
         idx     |-> i + 1]

\* Mutant of RunCompleted: the loop over events that collects the URLs for
\* the Staleness Marker is left out.
RunCompletedNoUrls(c, i, evs, t) ==
    LET scraper_results == process_events(c.tbl, evs, Scrapers[i], t)
    IN  [tbl     |-> scraper_results.tbl,
         logs    |-> [c.logs EXCEPT ![i].finished_at = t,
                                    ![i].events_found = Len(evs),
                                    ![i].events_new = scraper_results.new,
                                    ![i].events_updated = scraper_results.updated,
                                    ![i].status = "completed"],
         results |-> [c.results EXCEPT
                        !.total_found = @ + Len(evs),
                        !.new = @ + scraper_results.new,
                        !.updated = @ + scraper_results.updated],
         urls    |-> c.urls,
         idx     |-> i + 1]

\* The try block from _process_events to its end, for scraper i that
\* returned evs: the table is reconciled, the log closed as completed, the
\* counts added to results and the URLs to all_scraped_urls.
RunCompleted(c, i, evs, t) ==
    LET scraper_results == process_events(c.tbl, evs, Scrapers[i], t)
    IN  [tbl     |-> scraper_results.tbl,
         logs    |-> [c.logs EXCEPT ![i].finished_at = t,
                                    ![i].events_found = Len(evs),
                                    ![i].events_new = scraper_results.new,
                                    ![i].events_updated = scraper_results.updated,
                                    ![i].status = "completed"],
         results |-> [c.results EXCEPT
                        !.total_found = @ + Len(evs),
                        !.new = @ + scraper_results.new,
                        !.updated = @ + scraper_results.updated],
         urls    |-> c.urls \cup ScrapedUrls(evs),
         idx     |-> i + 1]

\* Mutant of RunFailed: the except clause starts the results dict afresh.
RunFailedReset(c, i, e, t) ==
    [c EXCEPT !.results = [NoResults EXCEPT
                             !.errors = <<"Error in " \o Scrapers[i] \o ": " \o e>>],
              !.logs[i].status = "error",
              !.logs[i].error_message = e,
              !.logs[i].finished_at = t,
              !.idx = i + 1]

\* Mutant of RunFailed: the exception ends the loop (a try around the loop
\* instead of inside it).
RunFailedBreak(c, i, e, t) ==
    [c EXCEPT !.results.errors = Append(@, "Error in " \o Scrapers[i] \o ": " \o e),
              !.logs[i].status = "error",
              !.logs[i].error_message = e,
              !.logs[i].finished_at = t,
              !.idx = Len(Scrapers) + 1]

\* Mutant of RunFailed: the except clause forgets the URLs collected so
\* far in the cycle.
RunFailedClearUrls(c, i, e, t) ==
    [c EXCEPT !.results.errors = Append(@, "Error in " \o Scrapers[i] \o ": " \o e),
              !.urls = {},
              !.logs[i].status = "error",
              !.logs[i].error_message = e,
              !.logs[i].finished_at = t,
              !.idx = i + 1]

\* Mutant of RunFailed: the except clause closes the log of the source
\* before (the variable log still bound to it) when there is one.
RunFailedPreviousLog(c, i, e, t) ==
    LET j == IF i > 1 THEN i - 1 ELSE i
    IN  [c EXCEPT !.results.errors = Append(@, "Error in " \o Scrapers[i] \o ": " \o e),
                  !.logs[j].status = "error",
                  !.logs[j].error_message = e,
                  !.logs[j].finished_at = t,
                  !.idx = i + 1]

\* The except clause of the loop for scraper i and exception text e: the
\* message is appended to results['errors'] and the log is closed as an
\* error; the loop goes on with the next scraper.
RunFailed(c, i, e, t) ==
    [c EXCEPT !.results.errors = Append(@, "Error in " \o Scrapers[i] \o ": " \o e),
              !.logs[i].status = "error",
              !.logs[i].error_message = e,
              !.logs[i].finished_at = t,
              !.idx = i + 1]

\* The loop body leaves c behind and moves to the next scraper.
NextScraper(c) ==
    /\ events_tbl' = c.tbl
    /\ results' = c.results
    /\ all_scraped_urls' = c.urls
    /\ logs' = c.logs
    /\ idx' = c.idx
    /\ pc' = "loop"

\* One pass of the loop of run_all_scrapers for scraper i, whose outcome o
\* is that scrape() raised, that scrape() returned o.events and the flush
\* of _process_events raised, or that the try block ran to its end.
RunScraper(c, i, o, t) ==
    LET c0 == [c EXCEPT !.logs = Append(@, NewLog(Scrapers[i], t))]
    IN  CASE o.kind = "scrape raises" -> RunFailed(c0, i, "scrape failed", t)
          [] o.kind = "flush raises" ->
                RunFailed([c0 EXCEPT !.tbl = process_events(c0.tbl, o.events,
                                                            Scrapers[i], t).tbl],
                          i, "flush failed", t)
          [] OTHER -> RunCompleted(c0, i, o.events, t)

RECURSIVE RunFrom(_, _, _, _)
RunFrom(c, outcomes, i, t) ==
    IF i > Len(outcomes) THEN c
    ELSE RunFrom(RunScraper(c, i, outcomes[i], t), outcomes, i + 1, t)

\* ScraperManager.run_all_scrapers as a function: the table it commits
\* when it starts at time t from the table tbl and the scrapers have the
\* given outcomes.
run_all_scrapers(tbl, outcomes, t) ==
    LET c == RunFrom([tbl |-> tbl, results |-> NoResults, urls |-> {},
                      logs |-> <<>>, idx |-> 1], outcomes, 1, t)
    IN  mark_inactive_events(c.tbl, c.urls).tbl

\* Records returned so far in the cycle.
RECURSIVE Found(_)
Found(ls) == IF ls = <<>> THEN 0 ELSE Len(Head(ls).events) + Found(Tail(ls))

\* run_all_scrapers entered (by scheduled_scrape or POST /scraper/run):
\* results and all_scraped_urls are initialised.
StartCycle ==
    /\ pc = "idle"
    /\ cycles < MaxCycles
    /\ cycles' = cycles + 1
    /\ now' = now + 1
    /\ results' = NoResults
    /\ all_scraped_urls' = {}
    /\ idx' = 1
    /\ logs' = <<>>
    /\ scraped' = <<>>
    /\ pc' = "loop"
    /\ UNCHANGED <<runs, event_imports, pages, events_tbl, committed, events, prev_scraped>>

\* Mutant of OpenLog: the log is committed, not flushed, and with it what
\* the session holds.
OpenLogCommits ==
    /\ pc = "loop"
    /\ idx <= Len(Scrapers)
    /\ logs' = Append(logs, NewLog(Scrapers[idx], now))
    /\ committed' = events_tbl
    /\ pc' = "scrape"
    /\ UNCHANGED <<runs, event_imports, pages, now, events_tbl, results, all_scraped_urls,
                   idx, events, scraped, prev_scraped, cycles>>

\* The loop takes the next scraper: its ScrapeLog is added and flushed.
OpenLog ==
    /\ pc = "loop"
    /\ idx <= Len(Scrapers)
    /\ logs' = Append(logs, NewLog(Scrapers[idx], now))
    /\ pc' = "scrape"
    /\ UNCHANGED <<runs, event_imports, pages, now, events_tbl, committed, results, all_scraped_urls,
                   idx, events, scraped, prev_scraped, cycles>>

\* events = await scraper.scrape() returns a list.
Scrape ==
    /\ pc = "scrape"
    /\ \E l \in Listings(Scrapers[idx], pages[Scrapers[idx]],
                         MaxFound - Found(scraped)) :
          /\ events' = l
          /\ scraped' = Append(scraped, [source_name |-> Scrapers[idx],
                                         raised |-> FALSE, events |-> l])
    /\ pc' = "process"
    /\ UNCHANGED <<runs, event_imports, pages, now, events_tbl, committed, results, all_scraped_urls,
                   idx, logs, prev_scraped, cycles>>

\* scraper.scrape() raises.
ScrapeRaises ==
    /\ pc = "scrape"
    /\ scraped' = Append(scraped, [source_name |-> Scrapers[idx],
                                   raised |-> TRUE, events |-> <<>>])
    /\ NextScraper(RunFailed(Ctx, idx, "scrape failed", now))
    /\ UNCHANGED <<runs, event_imports, pages, now, committed, events, prev_scraped, cycles>>

\* _process_events returns and the try block runs to its end.
Process ==
    /\ pc = "process"
    /\ NextScraper(RunCompleted(Ctx, idx, events, now))
    /\ UNCHANGED <<runs, event_imports, pages, now, committed, events, scraped, prev_scraped, cycles>>

\* _process_events raises: its loop swallows the exceptions of single
\* records, so the one that escapes is that of the db.flush() after the
\* loop, when the rows of the session are already changed.
ProcessRaises ==
    /\ pc = "process"
    /\ NextScraper(RunFailed(
          [Ctx EXCEPT !.tbl = process_events(events_tbl, events, Scrapers[idx], now).tbl],
          idx, "flush failed", now))
    /\ UNCHANGED <<runs, event_imports, pages, now, committed, events, scraped, prev_scraped, cycles>>

\* After the loop: _mark_inactive_events, and its count into results.
MarkInactive ==
    /\ pc = "loop"
    /\ idx > Len(Scrapers)
    /\ LET r == mark_inactive_events(events_tbl, all_scraped_urls)
       IN  /\ events_tbl' = r.tbl
           /\ results' = [results EXCEPT !.inactive = r.inactive_count]
    /\ pc' = "commit"
    /\ UNCHANGED <<runs, event_imports, pages, now, committed, all_scraped_urls, idx, events, logs,
                   scraped, prev_scraped, cycles>>

\* await db.commit()
Commit ==
    /\ pc = "commit"
    /\ committed' = events_tbl
    /\ pc' = "done"
    /\ UNCHANGED <<runs, event_imports, pages, now, events_tbl, results, all_scraped_urls, idx, events,
                   logs, scraped, prev_scraped, cycles>>

\* return results: the locals of the call are gone.
Returned ==
    /\ pc = "done"
    /\ pc' = "idle"
    /\ results' = NoResults
    /\ all_scraped_urls' = {}
    /\ idx' = 0
    /\ events' = <<>>
    /\ logs' = <<>>
    /\ scraped' = <<>>
    /\ UNCHANGED <<runs, event_imports, pages, now, events_tbl, committed, cycles>>

Return == Returned /\ prev_scraped' = <<>>

\* return results, to a caller that keeps what the adapters returned to
\* compare it with the next cycle's.
ReturnKeep == Returned /\ prev_scraped' = scraped

\* ----------------------------------------------------------- import routes
\* A row of event_imports as import_event builds it (its imported_at is the
\* column default, utcnow at the insert).
EventImport(event_id, user_id, notes) ==
    [event_id |-> event_id, user_id |-> user_id, imported_at |-> now,
     notes |-> notes]

\* Mutant of import_event: no check of is_imported, the import is written
\* again over the one the row has.
import_event_again(event_id, user_id, notes) ==
    /\ pc = "idle"
    /\ event_id \in 1..Len(events_tbl)
    /\ events_tbl' = [events_tbl EXCEPT
                        ![event_id].is_imported = TRUE,
                        ![event_id].imported_at = now,
                        ![event_id].imported_by_id = user_id,
                        ![event_id].import_notes = notes,
                        ![event_id].status = S_IMPORTED]
    /\ event_imports' = event_imports \cup {EventImport(event_id, user_id, notes)}
    /\ committed' = events_tbl'
    /\ UNCHANGED <<runs, pages, pc, now, results, all_scraped_urls, idx, events, logs,
                   scraped, prev_scraped, cycles>>

\* POST /events/{event_id}/import. On a row with is_imported set the route
\* raises HTTPException(400) before it writes anything, and the request
\* changes no state: the action is not enabled. event_imports.event_id is
\* unique, the commit of a second row for the event would raise as well.
import_event(event_id, user_id, notes) ==
    /\ pc = "idle"
    /\ event_id \in 1..Len(events_tbl)
    /\ ~events_tbl[event_id].is_imported
    /\ ~\E r \in event_imports : r.event_id = event_id
    /\ events_tbl' = [events_tbl EXCEPT
                        ![event_id].is_imported = TRUE,
                        ![event_id].imported_at = now,
                        ![event_id].imported_by_id = user_id,
                        ![event_id].import_notes = notes,
                        ![event_id].status = S_IMPORTED]
    /\ event_imports' = event_imports \cup {EventImport(event_id, user_id, notes)}
    /\ committed' = events_tbl'
    /\ UNCHANGED <<runs, pages, pc, now, results, all_scraped_urls, idx, events, logs,
                   scraped, prev_scraped, cycles>>

\* DELETE /events/{event_id}/import
unimport_event(event_id) ==
    /\ pc = "idle"
    /\ event_id \in 1..Len(events_tbl)
    /\ events_tbl' = [events_tbl EXCEPT
                        ![event_id].is_imported = FALSE,
                        ![event_id].imported_at = NullInt,
                        ![event_id].imported_by_id = NullInt,
                        ![event_id].import_notes = None,
                        ![event_id].status = S_UPDATED]
    /\ event_imports' = {r \in event_imports : r.event_id # event_id}
    /\ committed' = events_tbl'
    /\ UNCHANGED <<runs, pages, pc, now, results, all_scraped_urls, idx, events, logs,
                   scraped, prev_scraped, cycles>>

ImportEvent == \E id \in 1..Len(events_tbl), u \in Users, n \in Notes :
                  import_event(id, u, n)

UnimportEvent == \E id \in 1..Len(events_tbl) : unimport_event(id)

Next ==
    \/ StartCycle
    \/ OpenLog
    \/ Scrape
    \/ ScrapeRaises
    \/ Process
    \/ ProcessRaises
    \/ MarkInactive
    \/ Commit
    \/ Return
    \/ ImportEvent
    \/ UnimportEvent

Spec == Init /\ [][Next]_vars

\* The same engine on the pages of FieldPages.
InitFields == pages = FieldPages /\ InitEngine

SpecFields == InitFields /\ [][Next]_vars

\* ------------------------------------------------------------------ claims
\* The loop of _process_events has run over what the k-th scrape() call of
\* the cycle returned.
Processed(k) == k \in 1..Len(scraped) /\ ~scraped[k].raised /\ k < idx

\* The URLs of the rows of a table.
UrlsOf(tbl) == { tbl[i].source_url : i \in 1..Len(tbl) }

\* No two rows of the table have the same source_url.
UniqueUrls(tbl) ==
    \A i, j \in 1..Len(tbl) : tbl[i].source_url = tbl[j].source_url => i = j

\* C1: whatever records were processed, in this cycle or in earlier ones,
\* by the same or by different sources, the table (in the session and as
\* committed) holds no two rows with the same source URL, and it holds
\* exactly one row for every URL the cycle has processed.
C1_IdentityUnique ==
    /\ UniqueUrls(events_tbl)
    /\ UniqueUrls(committed)
    /\ \A k \in 1..Len(scraped) :
          Processed(k) =>
             \A u \in ScrapedUrls(scraped[k].events) :
                Cardinality(Lookup(events_tbl, u)) = 1

\* How many of the records the cycle has processed carry the URL u.
Occurrences(u) ==
    Cardinality({ kn \in (1..Len(scraped)) \X (1..MaxFound) :
                    /\ Processed(kn[1])
                    /\ kn[2] <= Len(scraped[kn[1]].events)
                    /\ scraped[kn[1]].events[kn[2]].source_url = u })

\* C1 witness: a URL that had a row before the cycle was processed twice
\* in the cycle and has one row.
C1_Witness ==
    /\ pc = "commit"
    /\ \E u \in UrlsOf(committed) :
          Occurrences(u) >= 2 /\ Cardinality(Lookup(events_tbl, u)) = 1

\* The columns of a row that are taken from the scraped record.
SourceKeys == {"title", "date_time", "date_string", "venue_name",
               "venue_address", "city", "description", "category", "tags",
               "image_url", "source_name", "source_url", "content_hash"}

SourceDerived(row) == [k \in SourceKeys |-> row[k]]

\* C2: no step of a cycle changes the status or a source-derived field of
\* a row whose status is imported, whatever the sources return.
C2_ImportFreeze ==
    [][pc # "idle" =>
         \A i \in 1..Len(events_tbl) :
            events_tbl[i].status = S_IMPORTED =>
               /\ events_tbl'[i].status = S_IMPORTED
               /\ SourceDerived(events_tbl'[i]) = SourceDerived(events_tbl[i])]_vars

\* Cycles in which every source completes, run one after the other by a
\* caller that keeps what the adapters returned.
NextReplay ==
    \/ StartCycle
    \/ OpenLog
    \/ Scrape
    \/ Process
    \/ MarkInactive
    \/ Commit
    \/ ReturnKeep

SpecReplay == Init /\ [][NextReplay]_vars

\* A row apart from its last_scraped_at.
ButLastScraped(row) == [k \in DOMAIN row \ {"last_scraped_at"} |-> row[k]]

\* C3: when the adapters return in a cycle exactly what they returned in
\* the cycle before, the summary of the cycle has new = 0 and updated = 0
\* and the cycle changes nothing in the table but last_scraped_at.
C3_IdempotentCycle ==
    (pc = "commit" /\ prev_scraped # <<>> /\ scraped = prev_scraped) =>
        /\ results.new = 0
        /\ results.updated = 0
        /\ Len(events_tbl) = Len(committed)
        /\ \A i \in 1..Len(committed) :
              ButLastScraped(events_tbl[i]) = ButLastScraped(committed[i])

\* The four fields generate_content_hash reads.
HashedKeys == {"title", "date_string", "venue_name", "description"}

\* The record differs from the row in exactly one hashed field.
OneHashedFieldChanged(row, ev) ==
    Cardinality({ k \in HashedKeys : row[k] # ev[k] }) = 1

\* C4: at the end of the reconciliation of a cycle, for a record of a
\* completed source whose URL the cycle processed once: if the URL had no
\* row the row now has status new and was first seen now; if it had a row
\* from which the record differs in one hashed field, the row has status
\* updated, its source-derived fields are the record's and its
\* first_seen_at is what it was.
C4_NewThenChanged ==
    pc = "commit" =>
      \A k \in 1..Len(scraped) :
        logs[k].status = "completed" =>
          \A n \in 1..Len(scraped[k].events) :
            LET ev == scraped[k].events[n]
                u == ev.source_url
            IN  Occurrences(u) = 1 =>
                  /\ Lookup(committed, u) = {} =>
                        \E i \in Lookup(events_tbl, u) :
                           /\ events_tbl[i].status = S_NEW
                           /\ events_tbl[i].first_seen_at = now
                  /\ \A i \in Lookup(committed, u) :
                        OneHashedFieldChanged(committed[i], ev) =>
                           /\ events_tbl[i].status = S_UPDATED
                           /\ SourceDerived(events_tbl[i]) = [key \in SourceKeys |-> ev[key]]
                           /\ events_tbl[i].first_seen_at = committed[i].first_seen_at

\* The URLs the scrape() calls of the cycle returned, and those returned
\* by the sources that completed.
ListedUrls == UNION { ScrapedUrls(scraped[k].events) : k \in 1..Len(scraped) }

Completed == { k \in 1..Len(logs) : logs[k].status = "completed" }

Failed == { k \in 1..Len(logs) : logs[k].status = "error" }

CompletedUrls == UNION { ScrapedUrls(scraped[k].events) : k \in Completed }

\* C5: (a) the Reconciler turns an inactive row whose URL is among the
\* records it processes into updated, also when the content is the same;
\* (b) the Staleness Marker leaves a cycle in which a row that was new or
\* updated before the cycle and whose URL no source listed is inactive,
\* and a row that was inactive and whose URL a completed source listed is
\* updated.
C5_DisappearReappear ==
    [][/\ pc = "process" =>
            \A i \in 1..Len(events_tbl) :
               (/\ events_tbl[i].status = S_INACTIVE
                /\ events_tbl[i].source_url \in ScrapedUrls(events))
               => events_tbl'[i].status = S_UPDATED
       /\ (pc = "loop" /\ pc' = "commit") =>
            \A i \in 1..Len(committed) :
               /\ (/\ committed[i].status \in {S_NEW, S_UPDATED}
                   /\ committed[i].source_url \notin ListedUrls)
                  => events_tbl'[i].status = S_INACTIVE
               /\ (/\ committed[i].status = S_INACTIVE
                   /\ committed[i].source_url \in CompletedUrls)
                  => events_tbl'[i].status = S_UPDATED]_vars

\* C5 witness: in the third cycle a row created in the first and not
\* listed in the second, inactive before the cycle, is listed again with
\* the same content and is updated.
C5_Witness ==
    /\ pc = "commit"
    /\ cycles = 3
    /\ \E i \in 1..Len(committed) :
          /\ committed[i].status = S_INACTIVE
          /\ committed[i].first_seen_at = 1
          /\ committed[i].last_scraped_at = 1
          /\ committed[i].source_url \in CompletedUrls
          /\ events_tbl[i].content_hash = committed[i].content_hash
          /\ events_tbl[i].status = S_UPDATED

RECURSIVE Sum(_, _)
Sum(f, S) == IF S = {} THEN 0
             ELSE LET x == CHOOSE y \in S : TRUE IN f[x] + Sum(f, S \ {x})

\* The rows the Reconciler inserted while it processed the k-th source:
\* the rows added in the cycle whose URL no earlier source of the cycle
\* had handed to it.
InsertedBy(k) ==
    { i \in (Len(committed) + 1)..Len(events_tbl) :
        /\ Processed(k)
        /\ events_tbl[i].source_url \in ScrapedUrls(scraped[k].events)
        /\ \A j \in 1..(k - 1) :
              Processed(j) => events_tbl[i].source_url \notin ScrapedUrls(scraped[j].events) }

\* The messages the except clause can append for the k-th source.
ErrorsOf(k) == { "Error in " \o Scrapers[k] \o ": " \o e :
                   e \in {"scrape failed", "flush failed"} }

C8_InactiveOnlyIfSourceRan ==
    pc = "commit" =>
        \A i \in 1..Len(committed) :
           (committed[i].status # S_INACTIVE /\ events_tbl[i].status = S_INACTIVE)
           => \E k \in Completed :
                 /\ Scrapers[k] = committed[i].source_name
                 /\ committed[i].source_url \notin ScrapedUrls(scraped[k].events)

\* The cycles alone, without the import routes.
NextEngine ==
    \/ StartCycle
    \/ OpenLog
    \/ Scrape
    \/ ScrapeRaises
    \/ Process
    \/ ProcessRaises
    \/ MarkInactive
    \/ Commit
    \/ Return

SpecEngine == Init /\ [][NextEngine]_vars

\* The outcomes of the scrapers in the cycle that has reached its commit.
Outcome(k) ==
    [kind   |-> IF scraped[k].raised THEN "scrape raises"
                ELSE IF logs[k].status = "error" THEN "flush raises"
                ELSE "completed",
     events |-> scraped[k].events]

Outcomes == [k \in 1..Len(scraped) |-> Outcome(k)]

\* Source A failed or returned nothing in the cycle.
Outage(A) == logs[A].status = "error" \/ scraped[A].events = <<>>

\* What A can have returned had it succeeded: the records it did return
\* when the failure came after scrape(), else any listing of its site.
HadSucceeded(A) ==
    IF scraped[A].events # <<>> THEN { scraped[A].events }
    ELSE Listings(Scrapers[A], pages[Scrapers[A]], MaxFound)

\* The table at the commit of the cycle had A completed with listing l.
Counterfactual(A, l) ==
    run_all_scrapers(committed,
                     [Outcomes EXCEPT ![A] = [kind |-> "completed", events |-> l]],
                     now)

\* The row of a table with a given URL.
RowOf(tbl, u) == tbl[CHOOSE i \in 1..Len(tbl) : tbl[i].source_url = u]

ButId(row) == [k \in DOMAIN row \ {"id"} |-> row[k]]

IdentityAndImportColumns == {"id", "first_seen_at", "is_imported", "imported_at",
                             "imported_by_id", "import_notes"}

\* A record that carries, besides the keys of the adapters, the names of
\* these columns as keys, with values no row has.
KeyedEvent(e) ==
    [k \in DOMAIN e \cup IdentityAndImportColumns |->
        CASE k = "id" -> 9
          [] k = "first_seen_at" -> 9
          [] k = "is_imported" -> FALSE
          [] k = "imported_at" -> 9
          [] k = "imported_by_id" -> 9
          [] k = "import_notes" -> "x"
          [] OTHER -> e[k]]

\* scrape() of a BaseScraper subclass is free in the keys of the dicts it
\* returns: a listing in which any record may carry these keys.
ScrapeForeign ==
    /\ pc = "scrape"
    /\ \E l \in Listings(Scrapers[idx], pages[Scrapers[idx]],
                         MaxFound - Found(scraped)) :
       \E keyed \in SUBSET (1..Len(l)) :
          LET evs == [n \in 1..Len(l) |->
                        IF n \in keyed THEN KeyedEvent(l[n]) ELSE l[n]]
          IN  /\ events' = evs
              /\ scraped' = Append(scraped, [source_name |-> Scrapers[idx],
                                             raised |-> FALSE, events |-> evs])
    /\ pc' = "process"
    /\ UNCHANGED <<runs, event_imports, pages, now, events_tbl, committed, results, all_scraped_urls,
                   idx, logs, prev_scraped, cycles>>

NextKeys ==
    \/ StartCycle
    \/ OpenLog
    \/ ScrapeForeign
    \/ Process
    \/ ProcessRaises
    \/ MarkInactive
    \/ Commit
    \/ Return
    \/ ImportEvent

\* The first site serves one URL with two titles, the second nothing.
KeyPages ==
    [src \in {"Eventbrite", "Meetup"} |->
        IF src = "Eventbrite"
        THEN { Item("a", "", None, "i1", "u1"), Item("ab", "", None, "i1", "u1") }
        ELSE {}]

InitKeys == pages = KeyPages /\ InitEngine

SpecKeys == InitKeys /\ [][NextKeys]_vars

\* C10: a step of the Reconciler leaves id, first_seen_at, is_imported,
\* imported_at, imported_by_id and import_notes of every row of the table
\* as they were, whether it finds the content hash changed or not and
\* whether or not the records carry keys of these names.
C10_ProtectedFieldsKept ==
    [][pc = "process" =>
          \A i \in 1..Len(events_tbl) :
             \A k \in IdentityAndImportColumns :
                events_tbl'[i][k] = events_tbl[i][k]]_vars

\* C10 witness: the Reconciler has updated an imported row from a record
\* with another content hash that carries the protected keys, with other
\* values than the row's.
C10_Witness ==
    /\ pc = "loop"
    /\ idx > 1
    /\ scraped[idx - 1].events = events
    /\ logs[idx - 1].status = "completed"
    /\ \E n \in 1..Len(events), i \in 1..Len(committed) :
          /\ IdentityAndImportColumns \subseteq DOMAIN events[n]
          /\ committed[i].source_url = events[n].source_url
          /\ committed[i].content_hash # events[n].content_hash
          /\ committed[i].is_imported
          /\ events_tbl[i].content_hash = events[n].content_hash
          /\ events_tbl[i].last_scraped_at = now
          /\ \A k \in IdentityAndImportColumns : events_tbl[i][k] # events[n][k]

\* C11: no step of the ingestion engine removes a source URL from the
\* table, in the session or as committed: the URLs after a step, and so
\* after a cycle, include the URLs before it.
C11_NoDeletion ==
    [][/\ UrlsOf(events_tbl) \subseteq UrlsOf(events_tbl')
       /\ UrlsOf(committed) \subseteq UrlsOf(committed')
       /\ Len(events_tbl') >= Len(events_tbl)]_vars

\* C11 witness: a cycle in which no source returned anything has been
\* committed and the rows of the earlier cycle are all there, inactive.
C11_Witness ==
    /\ pc = "done"
    /\ ListedUrls = {}
    /\ Len(committed) = 2
    /\ \A i \in 1..Len(committed) : committed[i].status = S_INACTIVE

\* Event dicts as the _parse_* methods build them before the hash is
\* added: the four hashed fields and three of the others vary.
HashInputs ==
    { [title         |-> t,
       date_string   |-> d,
       date_time     |-> None,
       venue_name    |-> v,
       venue_address |-> a,
       city          |-> "Sydney",
       description   |-> x,
       category      |-> c,
       tags          |-> None,
       image_url     |-> i,
       source_name   |-> "Eventbrite",
       source_url    |-> "u1"] :
        t \in {"a", "ab"}, d \in {"", "d"}, v \in {None, "None", "v"},
        x \in {None, "x"}, a \in {None, "s"}, c \in {None, "c"},
        i \in {"i1", "i2"} }

\* event['content_hash'] = self.generate_content_hash(event)
WithHash(event) ==
    [k \in DOMAIN event \cup {"content_hash"} |->
        IF k = "content_hash" THEN generate_content_hash(event) ELSE event[k]]

\* Two event dicts are about to be fingerprinted.
InitHash ==
    /\ pages = MainPages
    /\ pc = "hash"
    /\ now = 0
    /\ events_tbl = <<>>
    /\ committed = <<>>
    /\ results = NoResults
    /\ all_scraped_urls = {}
    /\ idx = 0
    /\ events \in { <<e1, e2>> : e1 \in HashInputs, e2 \in HashInputs }
    /\ logs = <<>>
    /\ scraped = <<>>
    /\ prev_scraped = <<>>
    /\ cycles = 0
    /\ event_imports = {}
    /\ runs = NoRuns

HashFirst ==
    /\ pc = "hash"
    /\ events' = [events EXCEPT ![1] = WithHash(@)]
    /\ pc' = "hash second"
    /\ UNCHANGED <<runs, event_imports, pages, now, events_tbl, committed, results, all_scraped_urls,
                   idx, logs, scraped, prev_scraped, cycles>>

HashSecond ==
    /\ pc = "hash second"
    /\ events' = [events EXCEPT ![2] = WithHash(@)]
    /\ pc' = "hashed"
    /\ UNCHANGED <<runs, event_imports, pages, now, events_tbl, committed, results, all_scraped_urls,
                   idx, logs, scraped, prev_scraped, cycles>>

NextHash == HashFirst \/ HashSecond

SpecHash == InitHash /\ [][NextHash]_vars

\* C12: two dicts that agree on title, date_string, venue_name and
\* description get the same content hash, whatever their other fields;
\* two dicts that differ in exactly one of the four get different ones.
C12_Fingerprint ==
    pc = "hashed" =>
        LET differing == { k \in HashedKeys : events[1][k] # events[2][k] }
        IN  /\ differing = {} => events[1].content_hash = events[2].content_hash
            /\ Cardinality(differing) = 1 =>
                  events[1].content_hash # events[2].content_hash

\* ----------------------------------------------------- failures of a cycle
\* The process stops while run_all_scrapers is between its entry and its
\* commit: the session is gone with everything it had not committed.
Crash ==
    /\ pc \in {"loop", "scrape", "process", "commit"}
    /\ pc' = "aborted"
    /\ events_tbl' = committed
    /\ UNCHANGED <<runs, event_imports, pages, now, committed, results, all_scraped_urls, idx, events,
                   logs, scraped, prev_scraped, cycles>>

\* _mark_inactive_events raises (its query fails): the call is outside
\* the try of the loop, the exception leaves run_all_scrapers.
MarkInactiveRaises ==
    /\ pc = "loop"
    /\ idx > Len(Scrapers)
    /\ pc' = "raised"
    /\ UNCHANGED <<runs, event_imports, pages, now, events_tbl, committed, results, all_scraped_urls,
                   idx, events, logs, scraped, prev_scraped, cycles>>

\* await db.commit() raises: nothing is made durable and the exception
\* leaves run_all_scrapers.
CommitRaises ==
    /\ pc = "commit"
    /\ pc' = "raised"
    /\ UNCHANGED <<runs, event_imports, pages, now, events_tbl, committed, results, all_scraped_urls,
                   idx, events, logs, scraped, prev_scraped, cycles>>

\* The caller (scheduled_scrape, or the route) gets the exception or the
\* process starts again: the session is closed without a commit and the
\* locals of the call are gone.
Surfaced ==
    /\ pc \in {"raised", "aborted"}
    /\ pc' = "idle"
    /\ events_tbl' = committed
    /\ results' = NoResults
    /\ all_scraped_urls' = {}
    /\ idx' = 0
    /\ events' = <<>>
    /\ logs' = <<>>
    /\ scraped' = <<>>
    /\ UNCHANGED <<runs, event_imports, pages, now, committed, prev_scraped, cycles>>

NextFaults ==
    \/ NextEngine
    \/ Crash
    \/ MarkInactiveRaises
    \/ CommitRaises
    \/ Surfaced

SpecFaults == Init /\ [][NextFaults]_vars

\* C13: the committed table changes in a cycle in one step only, the
\* commit, which comes after the Staleness Marker has run over the URLs
\* of the whole cycle and makes durable all the session holds; a cycle
\* that ends before its commit, or whose commit fails, leaves the
\* committed table as it was and nothing of the cycle in the session.
C13_OneUnitOfWork ==
    [][/\ committed' # committed =>
            /\ pc = "commit" /\ pc' = "done"
            /\ idx > Len(Scrapers)
            /\ StaleIds(events_tbl, all_scraped_urls) = {}
            /\ committed' = events_tbl
       /\ (pc = "commit" /\ pc' = "done") => committed' = events_tbl
       /\ pc' \in {"aborted", "raised"} => committed' = committed
       /\ (pc \in {"aborted", "raised"} /\ pc' = "idle") =>
            /\ committed' = committed
            /\ events_tbl' = committed]_vars

\* C13 witness: a cycle was aborted after the first source was processed
\* and rows were inserted for it; the committed table is still empty.
C13_Witness ==
    /\ pc = "aborted"
    /\ Len(logs) >= 1
    /\ logs[1].status = "completed"
    /\ logs[1].events_new > 0
    /\ committed = <<>>
    /\ events_tbl = <<>>

\* C14: an exception leaves run_all_scrapers only from its commit, and
\* then the summary is as it was, without a message for it; no failure
\* of scrape() or of _process_events ends the cycle.
C14_OnlyCommitFatal ==
    [][/\ pc' = "raised" => (pc = "commit" /\ results' = results)
       /\ pc \in {"scrape", "process"} => pc' \in {"process", "loop", "aborted"}]_vars

\* C15: when the Staleness Marker has run, the summary holds the sums of
\* events_found, events_new and events_updated of the logs of the sources
\* that completed (events_found being the length of what scrape()
\* returned), the number of rows the marker has just turned inactive, and
\* one message for each source that failed and no other; the commit
\* leaves the summary as it is.
C15_SummarySums ==
    [][/\ pc' = "commit" =>
            /\ \A k \in Completed : logs[k].events_found = Len(scraped[k].events)
            /\ results'.total_found =
                  Sum([k \in Completed |-> logs[k].events_found], Completed)
            /\ results'.new = Sum([k \in Completed |-> logs[k].events_new], Completed)
            /\ results'.updated =
                  Sum([k \in Completed |-> logs[k].events_updated], Completed)
            /\ results'.inactive =
                  Cardinality({ i \in 1..Len(events_tbl) :
                                  /\ events_tbl[i].status # S_INACTIVE
                                  /\ events_tbl'[i].status = S_INACTIVE })
            /\ Len(results'.errors) = Cardinality(Failed)
            /\ \A k \in Failed :
                  \E m \in 1..Len(results'.errors) : results'.errors[m] \in ErrorsOf(k)
       /\ pc = "commit" => results' = results]_vars

\* C15 witness: a summary with an update, a row marked inactive and the
\* message of a failed source.
C15_Witness ==
    /\ pc = "done"
    /\ results.total_found = 1
    /\ results.updated = 1
    /\ results.inactive = 1
    /\ Len(results.errors) = 1

\* What a scraper that does not check its records can return: records
\* with an empty title, for a new and for a known URL, and a record with
\* an empty source URL.
InvalidPages ==
    [src \in {"Eventbrite", "Meetup"} |->
        IF src = "Eventbrite"
        THEN { Item("a", "", None, "i1", "u1"), Item("", "", None, "i1", "u1"),
               Item("", "", None, "i1", "u2"), Item("a", "", None, "i1", "") }
        ELSE {}]

InitInvalid == pages = InvalidPages /\ InitEngine

SpecInvalid == InitInvalid /\ [][NextKeys]_vars

\* A record has a non-empty title and a non-empty source URL.
ValidRecord(e) == Truthy(Get(e, "title")) /\ Truthy(Get(e, "source_url"))

Adapters == {"Eventbrite", "Meetup", "Sydney Opera House", "Time Out Sydney"}

\* The slice [:30] the adapters take of the cards of a page (and Meetup of
\* the edges of its Next.js data).
CardCap == 30

\* A page as the adapters see it.  fetched: fetch_page returned the text
\* (it returns None on a transport error or a status other than 200).
\* The structured data of the page (JSON-LD items, Next.js edges) has nj
\* elements and the markup nc cards, each with a title and a URL; the
\* element at position bad, if any, is not a JSON object.  same: all
\* elements carry one URL; overlap: the cards carry the URLs of the
\* structured elements, else URLs of their own.
AdapterPages ==
    [adapter : Adapters, fetched : BOOLEAN,
     nj : {0, 1, 2, CardCap, CardCap + 1}, nc : {0, 1, 2, CardCap, CardCap + 1},
     same : BOOLEAN, overlap : BOOLEAN, bad : {0, 1, 2}]

PageUrl(n) == "u" \o ToString(n)

JsonOf(page) ==
    [n \in 1..page.nj |->
        IF n = page.bad THEN [object |-> FALSE]
        ELSE [object |-> TRUE,
              event  |-> MakeEvent(page.adapter,
                                   Item("a", "", None, "i1",
                                        PageUrl(IF page.same THEN 1 ELSE n)))]]

CardsOf(page) ==
    [n \in 1..page.nc |->
        MakeEvent(page.adapter,
                  Item("a", "", None, "i1",
                       PageUrl(IF page.same THEN 1
                               ELSE IF page.overlap THEN n ELSE page.nj + n)))]

\* seq[:n]
Slice(seq, n) == SubSeq(seq, 1, IF Len(seq) < n THEN Len(seq) ELSE n)

\* The loop over the structured elements: each parsed event is appended;
\* element.get(...) on an element that is not an object raises an
\* AttributeError, which the handler around json.loads does not catch
\* and which ends scrape() in its outer handler, with the events
\* appended before it.
ParseJson(elements) ==
    LET notObjects == { n \in 1..Len(elements) : ~elements[n].object }
        last == IF notObjects = {} THEN Len(elements)
                ELSE (CHOOSE n \in notObjects : \A m \in notObjects : n <= m) - 1
    IN  [events |-> [n \in 1..last |-> elements[n].event],
         caught |-> notObjects # {}]

\* The loop over the cards: a parsed card is appended to the events, in
\* the adapters that compare only if its URL is not among the events so
\* far, which are those before the loop and the cards before it.
ParseCards(cards, acc, compare) ==
    LET kept == SelectSeq([n \in 1..Len(cards) |-> n],
                          LAMBDA n :
                             compare =>
                                /\ cards[n].source_url \notin ScrapedUrls(acc)
                                /\ \A m \in 1..(n - 1) :
                                      cards[m].source_url # cards[n].source_url)
    IN  acc \o [k \in 1..Len(kept) |-> cards[kept[k]]]

\* scrape() of the four adapters on a page: the events it returns and
\* whether its outer handler caught an exception.
scrape(page) ==
    IF ~page.fetched THEN [events |-> <<>>, caught |-> FALSE]
    ELSE IF page.adapter = "Meetup" THEN
        LET j == ParseJson(Slice(JsonOf(page), CardCap))
        IN  IF j.caught \/ j.events # <<>> THEN j
            ELSE [events |-> ParseCards(Slice(CardsOf(page), CardCap), <<>>, FALSE),
                  caught |-> FALSE]
    ELSE
        LET j == ParseJson(JsonOf(page))
        IN  IF j.caught THEN j
            ELSE [events |-> ParseCards(Slice(CardsOf(page), CardCap), j.events, TRUE),
                  caught |-> FALSE]

\* An adapter is about to be called on a page.
InitAdapters ==
    /\ pages \in AdapterPages
    /\ pc = "adapter"
    /\ now = 0
    /\ events_tbl = <<>>
    /\ committed = <<>>
    /\ results = NoResults
    /\ all_scraped_urls = {}
    /\ idx = 0
    /\ events = <<>>
    /\ logs = <<>>
    /\ scraped = <<>>
    /\ prev_scraped = <<>>
    /\ cycles = 0
    /\ event_imports = {}
    /\ runs = NoRuns

\* events = await scraper.scrape()
AdapterScrape ==
    /\ pc = "adapter"
    /\ events' = scrape(pages).events
    /\ scraped' = <<[source_name |-> pages.adapter,
                     caught |-> scrape(pages).caught,
                     events |-> scrape(pages).events]>>
    /\ pc' = "scraped"
    /\ UNCHANGED <<runs, event_imports, pages, now, events_tbl, committed, results, all_scraped_urls,
                   idx, logs, prev_scraped, cycles>>

SpecAdapters == InitAdapters /\ [][AdapterScrape]_vars

\* C17: what scrape() of an adapter returns holds no two records with
\* the same source URL.
C17_AdapterDedup ==
    pc = "scraped" =>
        \A m, n \in 1..Len(events) :
           events[m].source_url = events[n].source_url => m = n

\* C18: what scrape() of an adapter returns has at most 30 records.
C18_AdapterCap == pc = "scraped" => Len(events) <= CardCap

\* C19: when the page could not be fetched, or an exception was caught
\* in scrape(), what scrape() returns is empty.
C19_AdapterEmptyOnException ==
    (pc = "scraped" /\ (~pages.fetched \/ scraped[1].caught)) => events = <<>>

\* C20: the status of every row is one of new, updated, inactive and
\* imported; a step of the engine gives no row the status imported and
\* takes it from none; a row that loses the status imported through the
\* import routes has the status updated.
C20_StatusLifecycle ==
    [][/\ \A i \in 1..Len(events_tbl') : events_tbl'[i].status \in EventStatus
       /\ pc # "idle" =>
            \A i \in 1..Len(events_tbl') :
               events_tbl'[i].status = S_IMPORTED
               <=> (i <= Len(events_tbl) /\ events_tbl[i].status = S_IMPORTED)
       /\ pc = "idle" =>
            \A i \in 1..Len(events_tbl) :
               (events_tbl[i].status = S_IMPORTED /\ events_tbl'[i].status # S_IMPORTED)
               => events_tbl'[i].status = S_UPDATED]_vars

\* The records of the listing being reconciled that carry the URL u.
RecordsOf(u) == { n \in 1..Len(events) : Get(events[n], "source_url") = u }

\* Rows of the table whose URL the listing holds and whose stored content
\* hash is that of every record of the listing with the URL.
SteadyIds ==
    { i \in 1..Len(events_tbl) :
        /\ RecordsOf(events_tbl[i].source_url) # {}
        /\ \A n \in RecordsOf(events_tbl[i].source_url) :
              Get(events[n], "content_hash") = events_tbl[i].content_hash }

\* Records of the listing that can meet a row with another content hash:
\* their URL is not that of a steady row, and it has a row or an earlier
\* record of the listing.
UpdatableRecords ==
    { n \in 1..Len(events) :
        LET u == Get(events[n], "source_url")
        IN  /\ Truthy(u)
            /\ \A i \in SteadyIds : events_tbl[i].source_url # u
            /\ \/ Lookup(events_tbl, u) # {}
               \/ \E m \in 1..(n - 1) : Get(events[m], "source_url") = u }

\* The steady rows that are inactive.
SteadyInactive == { i \in SteadyIds : events_tbl[i].status = S_INACTIVE }

\* C21: when the Reconciler runs over a listing, a row that is not
\* inactive and whose stored content hash is that of the records listed
\* for its URL comes out with last_scraped_at set to the current time and
\* with its status and every other column as they were; and the updated
\* count of the source does not count it: it is at most the number of
\* inactive rows listed unchanged plus the number of records that can meet
\* a row with another hash.
C21_UnchangedTouchOnly ==
    [][pc = "process" =>
          /\ \A i \in SteadyIds :
                events_tbl[i].status # S_INACTIVE =>
                   events_tbl'[i] = [events_tbl[i] EXCEPT !.last_scraped_at = now]
          /\ logs'[idx].status = "completed" =>
                logs'[idx].events_updated <=
                   Cardinality(SteadyInactive) + Cardinality(UpdatableRecords)]_vars

\* C21 witness: a source has completed whose listing held the URL of an
\* imported row with the row's content hash; the row differs from what it
\* was in last_scraped_at alone and the source counted no update.
C21_Witness ==
    /\ pc = "loop"
    /\ idx > 1
    /\ logs[idx - 1].status = "completed"
    /\ logs[idx - 1].events_updated = 0
    /\ \E i \in 1..Len(committed) :
          /\ committed[i].status = S_IMPORTED
          /\ committed[i].source_url \in ScrapedUrls(scraped[idx - 1].events)
          /\ committed[i].last_scraped_at < now
          /\ events_tbl[i] = [committed[i] EXCEPT !.last_scraped_at = now]

\* The URLs of the listing being reconciled for which the table has no row.
NewUrls == { u \in ScrapedUrls(events) : Lookup(events_tbl, u) = {} }

\* C22: when the Reconciler runs over a listing, every URL of the listing
\* that had no row has exactly one row afterwards, appended to the table,
\* first seen and last scraped at the current time, with is_imported
\* false and the other import columns empty, and with status new (unless
\* a later record of the same listing carries the URL with another content
\* hash); nothing else is appended, and the new count of the source is the
\* number of these URLs.
C22_InsertNew ==
    [][pc = "process" =>
          /\ \A u \in NewUrls :
                /\ Cardinality(Lookup(events_tbl', u)) = 1
                /\ \A i \in Lookup(events_tbl', u) :
                      /\ i > Len(events_tbl)
                      /\ events_tbl'[i].first_seen_at = now
                      /\ events_tbl'[i].last_scraped_at = now
                      /\ events_tbl'[i].is_imported = FALSE
                      /\ events_tbl'[i].imported_at = NullInt
                      /\ events_tbl'[i].imported_by_id = NullInt
                      /\ events_tbl'[i].import_notes = None
                      /\ (\A m, n \in RecordsOf(u) :
                             Get(events[m], "content_hash") = Get(events[n], "content_hash"))
                         => events_tbl'[i].status = S_NEW
          /\ Len(events_tbl') = Len(events_tbl) + Cardinality(NewUrls)
          /\ logs'[idx].status = "completed" =>
                logs'[idx].events_new = Cardinality(NewUrls)]_vars

\* C22 witness: in a later cycle a source has completed whose listing held
\* one URL without a row and the URL of a row; one row was appended, new
\* and first seen in this cycle, and the source counted one insertion.
C22_Witness ==
    /\ pc = "loop"
    /\ idx > 1
    /\ cycles > 1
    /\ logs[idx - 1].status = "completed"
    /\ logs[idx - 1].events_found = 2
    /\ logs[idx - 1].events_new = 1
    /\ Len(committed) > 0
    /\ Len(events_tbl) = Len(committed) + 1
    /\ events_tbl[Len(events_tbl)].status = S_NEW
    /\ events_tbl[Len(events_tbl)].first_seen_at = now
    /\ events_tbl[Len(events_tbl)].last_scraped_at = now
    /\ ~events_tbl[Len(events_tbl)].is_imported

\* C23: when the Reconciler runs over a listing, an inactive row whose
\* stored content hash is that of the records listed for its URL comes out
\* with status updated and last_scraped_at at the current time and every
\* other column as it was; and the updated count of the source counts the
\* row once, however many records carry its URL: the count is at least
\* the number of such rows, and exceeds it by at most the number of
\* records that can meet a row with another hash.
C23_InactiveReappears ==
    [][pc = "process" =>
          /\ \A i \in SteadyInactive :
                events_tbl'[i] = [events_tbl[i] EXCEPT !.status = S_UPDATED,
                                                       !.last_scraped_at = now]
          /\ logs'[idx].status = "completed" =>
                /\ logs'[idx].events_updated >= Cardinality(SteadyInactive)
                /\ logs'[idx].events_updated <=
                      Cardinality(SteadyInactive) + Cardinality(UpdatableRecords)]_vars

\* C23 witness: a source has completed whose listing held twice the URL of
\* an inactive row, with the row's content hash; the row is updated, was
\* last scraped now, is otherwise what it was, and the source counted one
\* update.
C23_Witness ==
    /\ pc = "loop"
    /\ idx > 1
    /\ logs[idx - 1].status = "completed"
    /\ logs[idx - 1].events_found = 2
    /\ logs[idx - 1].events_updated = 1
    /\ \E i \in 1..Len(committed) :
          /\ committed[i].status = S_INACTIVE
          /\ \A n \in 1..2 :
                /\ scraped[idx - 1].events[n].source_url = committed[i].source_url
                /\ scraped[idx - 1].events[n].content_hash = committed[i].content_hash
          /\ committed[i].last_scraped_at < now
          /\ events_tbl[i] = [committed[i] EXCEPT !.status = S_UPDATED,
                                                  !.last_scraped_at = now]

\* C24: the step of the Staleness Marker, given the set of URLs the cycle
\* collected from its sources, turns into inactive exactly the rows, of
\* whatever source, whose status is neither inactive nor imported and whose
\* URL is not in the set; it changes the status of these rows and nothing
\* else in the table; and the count it returns is the number of rows that
\* became inactive in the step.
C24_GlobalSetDifference ==
    [][(pc = "loop" /\ pc' = "commit") =>
          /\ Len(events_tbl') = Len(events_tbl)
          /\ \A i \in 1..Len(events_tbl) :
                events_tbl'[i] =
                   IF /\ events_tbl[i].status # S_INACTIVE
                      /\ events_tbl[i].status # S_IMPORTED
                      /\ events_tbl[i].source_url \notin all_scraped_urls
                   THEN [events_tbl[i] EXCEPT !.status = S_INACTIVE]
                   ELSE events_tbl[i]
          /\ results'.inactive =
                Cardinality({ i \in 1..Len(events_tbl) :
                                /\ events_tbl[i].status # S_INACTIVE
                                /\ events_tbl'[i].status = S_INACTIVE })]_vars

\* C24 witness: the Staleness Marker has run in a cycle that listed
\* neither of the two rows, which are of different sources: the one that
\* was new or updated is inactive and otherwise as it was, the imported
\* one is as it was, and the count is one.
C24_Witness ==
    /\ pc = "commit"
    /\ results.inactive = 1
    /\ \E j, k \in 1..Len(committed) :
          /\ committed[j].status \in {S_NEW, S_UPDATED}
          /\ committed[j].source_url \notin all_scraped_urls
          /\ events_tbl[j] = [committed[j] EXCEPT !.status = S_INACTIVE]
          /\ committed[k].source_name # committed[j].source_name
          /\ committed[k].status = S_IMPORTED
          /\ committed[k].source_url \notin all_scraped_urls
          /\ events_tbl[k] = committed[k]

\* Every configured source has had its log opened, its scrape() call made
\* and its log closed as completed or as error.
AllAttempted ==
    /\ Len(logs) = Len(Scrapers)
    /\ Len(scraped) = Len(Scrapers)
    /\ \A k \in 1..Len(logs) : logs[k].status \in {"completed", "error"}

\* C25: in a cycle, rows become inactive in one step only, the step of
\* the Staleness Marker; this step is taken when every configured source
\* has completed or failed and not before; it is the only step taken
\* then; the step after it is the commit, which changes nothing but the
\* durable table; the durable table changes in no other step; and after
\* the commit the cycle only returns.
C25_MarkerOnceThenCommit ==
    [][/\ (\E i \in 1..Len(events_tbl) :
              events_tbl[i].status # S_INACTIVE /\ events_tbl'[i].status = S_INACTIVE)
          => (pc = "loop" /\ pc' = "commit")
       /\ pc' = "commit" => (pc = "loop" /\ AllAttempted)
       /\ (pc = "loop" /\ AllAttempted) =>
             (pc' = "commit" /\ results'.inactive = Cardinality(
                 { i \in 1..Len(events_tbl) :
                     events_tbl[i].status # S_INACTIVE /\ events_tbl'[i].status = S_INACTIVE }))
       /\ pc = "commit" =>
             (pc' = "done" /\ committed' = events_tbl /\ events_tbl' = events_tbl)
       /\ committed' # committed => pc = "commit"
       /\ pc = "done" => pc' = "idle"]_vars

\* C25 witness: a cycle is committed in which the first source failed and
\* the second completed, and the Staleness Marker, run after both, marked
\* a row inactive.
C25_Witness ==
    /\ pc = "done"
    /\ logs[1].status = "error"
    /\ logs[2].status = "completed"
    /\ results.inactive = 1
    /\ \E i \in 1..Len(committed) : committed[i].status = S_INACTIVE

Closed(log) == log.status \in {"completed", "error"}

C28_LogInactiveCount ==
    [][(pc = "loop" /\ pc' = "commit") =>
          \A k \in 1..Len(logs') :
             logs'[k].events_inactive =
                Cardinality({ i \in 1..Len(events_tbl) :
                                /\ events_tbl[i].source_name = logs'[k].source_name
                                /\ events_tbl[i].status # S_INACTIVE
                                /\ events_tbl'[i].status = S_INACTIVE })]_vars

\* Pages on which the image of an event varies while its title stays, and
\* on which the title varies as well.
ImagePages ==
    [src \in {"Eventbrite", "Meetup"} |->
        IF src = "Eventbrite"
        THEN { Item("a", "", None, "i1", "u1"), Item("a", "", None, "i2", "u1"),
               Item("ab", "", None, "i2", "u1") }
        ELSE {}]

InitImages == pages = ImagePages /\ InitEngine

SpecImages == InitImages /\ [][NextEngine]_vars

\* The fields of a record that generate_content_hash does not read and
\* that are not the identity of the record.
ExcludedKeys == {"venue_address", "category", "tags", "image_url", "city"}

\* Rows whose URL the listing being reconciled holds, every record of the
\* URL carrying the row's title, date_string, venue_name and description,
\* and one of them another value than the row's in an excluded field.
ConfinedIds ==
    { i \in 1..Len(events_tbl) :
        /\ RecordsOf(events_tbl[i].source_url) # {}
        /\ \A n \in RecordsOf(events_tbl[i].source_url) :
              \A k \in HashedKeys : events[n][k] = events_tbl[i][k]
        /\ \E n \in RecordsOf(events_tbl[i].source_url) :
              \E k \in ExcludedKeys : events[n][k] # events_tbl[i][k] }

\* C29: when the Reconciler runs over a listing in which the records of a
\* row's URL differ from the row in excluded fields only, the row keeps
\* every column but last_scraped_at, the excluded fields among them, and
\* its status (an inactive row becomes updated as any row listed again
\* does); when these are all the records of the listing, the updated
\* count is the number of inactive rows among them.  When the one record
\* of a row's URL differs from the row in a hashed field as well, the row
\* takes the excluded fields of the record.
C29_ExcludedFieldsInvisible ==
    [][pc = "process" =>
          /\ \A i \in ConfinedIds :
                events_tbl'[i] =
                   [events_tbl[i] EXCEPT
                       !.last_scraped_at = now,
                       !.status = IF @ = S_INACTIVE THEN S_UPDATED ELSE @]
          /\ (/\ logs'[idx].status = "completed"
              /\ \A n \in 1..Len(events) :
                    \E i \in ConfinedIds : events_tbl[i].source_url = events[n].source_url)
             => logs'[idx].events_updated =
                   Cardinality({ i \in ConfinedIds : events_tbl[i].status = S_INACTIVE })
          /\ \A i \in 1..Len(events_tbl) :
                \A n \in RecordsOf(events_tbl[i].source_url) :
                   (/\ RecordsOf(events_tbl[i].source_url) = {n}
                    /\ \E k \in HashedKeys : events[n][k] # events_tbl[i][k])
                   => \A k \in ExcludedKeys : events_tbl'[i][k] = events[n][k]]_vars

\* C29 witness: a source has completed whose one record carried the URL
\* and the hashed fields of a row that was new or updated, and another
\* image; the row has its old image, differs from what it was in
\* last_scraped_at alone, and no update was counted.
C29_Witness ==
    /\ pc = "loop"
    /\ idx > 1
    /\ logs[idx - 1].status = "completed"
    /\ logs[idx - 1].events_found = 1
    /\ logs[idx - 1].events_updated = 0
    /\ \E i \in 1..Len(committed) :
          LET ev == scraped[idx - 1].events[1]
          IN  /\ committed[i].status \in {S_NEW, S_UPDATED}
              /\ ev.source_url = committed[i].source_url
              /\ \A k \in HashedKeys : ev[k] = committed[i][k]
              /\ ev.image_url # committed[i].image_url
              /\ committed[i].last_scraped_at < now
              /\ events_tbl[i].image_url = committed[i].image_url
              /\ events_tbl[i] = [committed[i] EXCEPT !.last_scraped_at = now]

\* ------------------------------------------------------------- parse_date
\* A date string is a sequence of tokens: a run of digits (its length and
\* its value), a month name (its month, and whether it is an abbreviated
\* name, a full name or, as May, both), a run of whitespace, or any other
\* character.  Every directive of date_formats is followed by a character
\* that is not a digit or by the end of the format, so a directive takes a
\* whole run of digits or none of it.
Digits(l, v) == [kind |-> "digits", len |-> l, val |-> v, ch |-> ""]
Month(m, form) == [kind |-> "month", len |-> 0, val |-> m, ch |-> form]
Space == [kind |-> "space", len |-> 0, val |-> 0, ch |-> " "]
Char(c) == [kind |-> "char", len |-> 0, val |-> 0, ch |-> c]

\* date_formats of parse_date, each format as the sequence of its
\* directives and characters.
date_formats ==
    << <<"%Y", "-", "%m", "-", "%d", " ", "%H", ":", "%M", ":", "%S">>,
       <<"%Y", "-", "%m", "-", "%d", " ", "%H", ":", "%M">>,
       <<"%Y", "-", "%m", "-", "%d", "T", "%H", ":", "%M", ":", "%S">>,
       <<"%Y", "-", "%m", "-", "%d", "T", "%H", ":", "%M", ":", "%S", "Z">>,
       <<"%Y", "-", "%m", "-", "%d", "T", "%H", ":", "%M", ":", "%S", ".", "%f", "Z">>,
       <<"%d", " ", "%b", " ", "%Y", " ", "%H", ":", "%M">>,
       <<"%d", " ", "%B", " ", "%Y", " ", "%H", ":", "%M">>,
       <<"%d", " ", "%b", " ", "%Y">>,
       <<"%d", " ", "%B", " ", "%Y">>,
       <<"%B", " ", "%d", ",", " ", "%Y">>,
       <<"%b", " ", "%d", ",", " ", "%Y">>,
       <<"%d", "/", "%m", "/", "%Y", " ", "%H", ":", "%M">>,
       <<"%d", "/", "%m", "/", "%Y">>,
       <<"%m", "/", "%d", "/", "%Y">> >>

\* The regular expression strptime compiles a format into ignores case.
Fold(c) == IF c = "t" THEN "T" ELSE IF c = "z" THEN "Z" ELSE c

\* One element of a format against one token, as the regular expression
\* of strptime matches: %Y four digits, %m 1..12, %d 1..31, %H 0..23,
\* %M 0..59 and %S 0..61 in one or two digits, %f one to six digits, %b and
\* %B a month name, whitespace any run of whitespace, a character itself.
MatchesElement(token, element) ==
    CASE element = "%Y" -> token.kind = "digits" /\ token.len = 4
      [] element = "%m" -> token.kind = "digits" /\ token.len \in 1..2 /\ token.val \in 1..12
      [] element = "%d" -> token.kind = "digits" /\ token.len \in 1..2 /\ token.val \in 1..31
      [] element = "%H" -> token.kind = "digits" /\ token.len \in 1..2 /\ token.val \in 0..23
      [] element = "%M" -> token.kind = "digits" /\ token.len \in 1..2 /\ token.val \in 0..59
      [] element = "%S" -> token.kind = "digits" /\ token.len \in 1..2 /\ token.val \in 0..61
      [] element = "%f" -> token.kind = "digits" /\ token.len \in 1..6
      [] element = "%b" -> token.kind = "month" /\ token.ch \in {"abbr", "both"}
      [] element = "%B" -> token.kind = "month" /\ token.ch \in {"full", "both"}
      [] element = " " -> token.kind = "space"
      [] OTHER -> token.kind = "char" /\ Fold(token.ch) = element

\* The number of days of a month of the proleptic Gregorian calendar.
DaysIn(month, year) ==
    IF month \in {4, 6, 9, 11} THEN 30
    ELSE IF month # 2 THEN 31
    ELSE IF year % 4 = 0 /\ (year % 100 # 0 \/ year % 400 = 0) THEN 29
    ELSE 28

\* A datetime, and None in its place.
DateTime(y, mo, d, h, mi, s, us) ==
    [is_none |-> FALSE, year |-> y, month |-> mo, day |-> d, hour |-> h,
     minute |-> mi, second |-> s, microsecond |-> us]

NoDateTime ==
    [is_none |-> TRUE, year |-> 0, month |-> 0, day |-> 0, hour |-> 0,
     minute |-> 0, second |-> 0, microsecond |-> 0]

\* datetime.strptime(date_string, format): the datetime, or that it raises
\* ValueError (the string does not match the format to its end, or the
\* values matched are no date and time).
strptime(date_string, format) ==
    LET matched == /\ Len(date_string) = Len(format)
                   /\ \A p \in 1..Len(format) :
                         MatchesElement(date_string[p], format[p])
        At(directives) == { p \in 1..Len(format) : format[p] \in directives }
        Value(directives) ==
            IF At(directives) = {} THEN 0
            ELSE date_string[CHOOSE p \in At(directives) : TRUE].val
        us == IF At({"%f"}) = {} THEN 0
              ELSE LET token == date_string[CHOOSE p \in At({"%f"}) : TRUE]
                   IN  token.val * 10 ^ (6 - token.len)
        year == Value({"%Y"})
        month == Value({"%m", "%b", "%B"})
        day == Value({"%d"})
    IN  IF /\ matched
           /\ year >= 1
           /\ day <= DaysIn(month, year)
           /\ Value({"%S"}) <= 59
        THEN [raises |-> FALSE,
              value  |-> DateTime(year, month, day, Value({"%H"}), Value({"%M"}),
                                  Value({"%S"}), us)]
        ELSE [raises |-> TRUE, value |-> NoDateTime]

\* str.strip(): the string without its leading and trailing whitespace.
strip(date_str) ==
    LET inner == { p \in 1..Len(date_str) : date_str[p].kind # "space" }
    IN  IF inner = {} THEN <<>>
        ELSE LET first == CHOOSE p \in inner : \A q \in inner : p <= q
                 last == CHOOSE p \in inner : \A q \in inner : q <= p
             IN  [p \in 1..(last - first + 1) |-> date_str[p + first - 1]]

\* BaseScraper.parse_date: None for an empty string; else the result of
\* the first format with which strptime does not raise; None when it
\* raises with every format.
parse_date(date_str) ==
    IF date_str = <<>> THEN NoDateTime
    ELSE LET parsing == { n \in 1..Len(date_formats) :
                            ~strptime(strip(date_str), date_formats[n]).raises }
         IN  IF parsing = {} THEN NoDateTime
             ELSE strptime(strip(date_str),
                           date_formats[CHOOSE n \in parsing :
                                           \A m \in parsing : n <= m]).value

\* Date strings of the pages: ISO dates alone and with a time, with and
\* without Z, fraction and offset; day/month/year with slashes; dates with
\* a month name; with values in and out of range; and strings that are no
\* date.
DayOrMonth == { Digits(2, 1), Digits(1, 1), Digits(2, 2), Digits(2, 13),
                Digits(2, 30), Digits(2, 31), Digits(2, 0), Digits(3, 1) }

Years == { Digits(4, 2024), Digits(4, 2023) }

MonthNames == { Month(1, "abbr"), Month(1, "full"), Month(5, "both"), Month(2, "abbr") }

IsoDates == { <<y, Char("-"), a, Char("-"), b>> : y \in Years, a \in DayOrMonth, b \in DayOrMonth }

Times ==
    { <<h, Char(":"), Digits(2, 0), Char(":"), s>> :
        h \in {Digits(2, 10), Digits(2, 24)}, s \in {Digits(2, 0), Digits(2, 60)} }
    \cup { <<Digits(2, 10), Char(":"), Digits(2, 0)>> }

Suffixes ==
    { <<>>, <<Char("Z")>>, <<Char("."), Digits(1, 5), Char("Z")>>,
      <<Char("."), Digits(7, 1234567), Char("Z")>>,
      <<Char("+"), Digits(2, 10), Char(":"), Digits(2, 0)>> }

IsoDateTimes ==
    { <<Digits(4, 2024), Char("-"), a, Char("-"), b>> \o <<sep>> \o t \o x :
        a \in {Digits(2, 1), Digits(2, 2), Digits(2, 13)},
        b \in {Digits(2, 1), Digits(2, 30)},
        sep \in {Char("T"), Char("t"), Space}, t \in Times, x \in Suffixes }

SlashDates ==
    { <<a, Char("/"), b, Char("/"), Digits(4, 2024)>> \o t :
        a \in DayOrMonth, b \in DayOrMonth,
        t \in { <<>>, <<Space, Digits(2, 10), Char(":"), Digits(2, 0)>> } }

NamedDates ==
    { <<d, Space, m, Space, Digits(4, 2024)>> \o t :
        d \in {Digits(1, 1), Digits(2, 30)}, m \in MonthNames,
        t \in { <<>>, <<Space, Digits(2, 10), Char(":"), Digits(2, 0)>> } }
    \cup { <<m, Space, d, Char(","), Space, Digits(4, 2024)>> :
             d \in {Digits(1, 1), Digits(2, 30)}, m \in MonthNames }

DateStrings ==
    IsoDates \cup IsoDateTimes \cup SlashDates \cup NamedDates
    \cup { <<>>, <<Space>>, <<Char("x")>>,
           <<Space, Digits(2, 1), Char("/"), Digits(2, 2), Char("/"), Digits(4, 2024), Space>> }

\* An adapter is about to call parse_date on a date string (held in
\* `events`).
InitDates ==
    /\ pages = MainPages
    /\ pc = "parse"
    /\ now = 0
    /\ events_tbl = <<>>
    /\ committed = <<>>
    /\ results = NoResults
    /\ all_scraped_urls = {}
    /\ idx = 0
    /\ events \in DateStrings
    /\ logs = <<>>
    /\ scraped = <<>>
    /\ prev_scraped = <<>>
    /\ cycles = 0
    /\ event_imports = {}
    /\ runs = NoRuns

\* 'date_time': self.parse_date(date_string), the value held in `results`.
ParseDate ==
    /\ pc = "parse"
    /\ results' = parse_date(events)
    /\ pc' = "parsed"
    /\ UNCHANGED <<runs, event_imports, pages, now, events_tbl, committed, all_scraped_urls, idx,
                   events, logs, scraped, prev_scraped, cycles>>

SpecDates == InitDates /\ [][ParseDate]_vars

\* An ISO 8601 calendar date YYYY-MM-DD.
IsIsoDate(s) ==
    /\ Len(s) = 5
    /\ s[1].kind = "digits" /\ s[1].len = 4 /\ s[1].val >= 1
    /\ s[2] = Char("-")
    /\ s[3].kind = "digits" /\ s[3].len = 2 /\ s[3].val \in 1..12
    /\ s[4] = Char("-")
    /\ s[5].kind = "digits" /\ s[5].len = 2
    /\ s[5].val \in 1..DaysIn(s[3].val, s[1].val)

\* An ISO 8601 time hh:mm:ss.
IsIsoTime(s) ==
    /\ Len(s) = 5
    /\ s[1].kind = "digits" /\ s[1].len = 2 /\ s[1].val \in 0..23
    /\ s[2] = Char(":")
    /\ s[3].kind = "digits" /\ s[3].len = 2 /\ s[3].val \in 0..59
    /\ s[4] = Char(":")
    /\ s[5].kind = "digits" /\ s[5].len = 2 /\ s[5].val \in 0..59

\* Nothing, the UTC marker, or a fraction of a second and the UTC marker.
IsFractionAndUtc(s) ==
    \/ s = <<>>
    \/ s = <<Char("Z")>>
    \/ /\ Len(s) = 3
       /\ s[1] = Char(".")
       /\ s[2].kind = "digits" /\ s[2].len \in 1..6
       /\ s[3] = Char("Z")

\* An ISO 8601 date and time YYYY-MM-DDThh:mm:ss, Z and fraction optional.
IsIsoDateTime(s) ==
    /\ Len(s) >= 11
    /\ IsIsoDate(SubSeq(s, 1, 5))
    /\ s[6] = Char("T")
    /\ IsIsoTime(SubSeq(s, 7, 11))
    /\ IsFractionAndUtc(SubSeq(s, 12, Len(s)))

\* A date of three numbers with slashes that reads both as day/month/year
\* and as month/day/year.
IsAmbiguousSlashDate(s) ==
    /\ Len(s) = 5
    /\ s[1].kind = "digits" /\ s[1].len \in 1..2 /\ s[1].val \in 1..12
    /\ s[2] = Char("/")
    /\ s[3].kind = "digits" /\ s[3].len \in 1..2 /\ s[3].val \in 1..12
    /\ s[4] = Char("/")
    /\ s[5].kind = "digits" /\ s[5].len = 4 /\ s[5].val >= 1

\* C30: parse_date returns a datetime for an ISO 8601 date with a time,
\* with the values of the string, and for an ISO 8601 date without a time
\* (midnight of the day); it returns what the first format of
\* date_formats that parses the string yields, so day/month/year for a
\* date with slashes that can be read both ways; and it returns None for
\* a string that no format parses.
C30_ParseDate ==
    pc = "parsed" =>
        /\ IsIsoDateTime(events) =>
              /\ ~results.is_none
              /\ results.year = events[1].val
              /\ results.month = events[3].val
              /\ results.day = events[5].val
              /\ results.hour = events[7].val
              /\ results.minute = events[9].val
              /\ results.second = events[11].val
        /\ IsIsoDate(events) =>
              results = DateTime(events[1].val, events[3].val, events[5].val, 0, 0, 0, 0)
        /\ IsAmbiguousSlashDate(events) =>
              results = DateTime(events[5].val, events[3].val, events[1].val, 0, 0, 0, 0)
        /\ \A n \in 1..Len(date_formats) :
              (/\ ~strptime(strip(events), date_formats[n]).raises
               /\ \A m \in 1..(n - 1) : strptime(strip(events), date_formats[m]).raises)
              => results = strptime(strip(events), date_formats[n]).value
        /\ (\A n \in 1..Len(date_formats) : strptime(strip(events), date_formats[n]).raises)
              => results.is_none

\* ------------------------------------------------------------ import routes
\* C31..: the routes and the cycles on the pages of one event.
SpecRoutes == InitKeys /\ [][Next]_vars

\* The rows of event_imports of an event.
ImportRecords(recs, event_id) == { r \in recs : r.event_id = event_id }

\* C31: a request to import a row that is not imported sets its status to
\* 'imported', fills is_imported, imported_at, imported_by_id and
\* import_notes and adds the one row of event_imports for it; no request
\* changes a row that is and stays imported, nor its row of event_imports
\* (so a repeated import, rejected with 400, writes nothing); removing the
\* import clears the four columns, deletes the row of event_imports and
\* sets the status to 'updated'.
C31_ImportRoutes ==
    [][(pc = "idle" /\ pc' = "idle") =>
          /\ Len(events_tbl') = Len(events_tbl)
          /\ committed' = events_tbl'
          /\ \A i \in 1..Len(events_tbl) :
                /\ (~events_tbl[i].is_imported /\ events_tbl'[i].is_imported) =>
                      /\ events_tbl'[i].status = S_IMPORTED
                      /\ events_tbl'[i].imported_at = now
                      /\ events_tbl'[i].imported_by_id \in Users
                      /\ events_tbl'[i].import_notes \in Notes
                      /\ ImportRecords(event_imports', i) =
                            {[event_id |-> i,
                              user_id |-> events_tbl'[i].imported_by_id,
                              imported_at |-> now,
                              notes |-> events_tbl'[i].import_notes]}
                /\ (events_tbl[i].is_imported /\ events_tbl'[i].is_imported) =>
                      /\ events_tbl'[i] = events_tbl[i]
                      /\ ImportRecords(event_imports', i) = ImportRecords(event_imports, i)
                /\ (events_tbl[i].is_imported /\ ~events_tbl'[i].is_imported) =>
                      /\ events_tbl'[i].status = S_UPDATED
                      /\ events_tbl'[i].imported_at = NullInt
                      /\ events_tbl'[i].imported_by_id = NullInt
                      /\ events_tbl'[i].import_notes = None
                      /\ ImportRecords(event_imports', i) = {}]_vars

\* A row imported in an earlier period, with its row of event_imports, while
\* no cycle runs: the import has acted and a request to import the row
\* again can arrive, at a time that is not its imported_at.
C31_Witness ==
    /\ pc = "idle"
    /\ \E i \in 1..Len(events_tbl) :
          /\ events_tbl[i].is_imported
          /\ events_tbl[i].status = S_IMPORTED
          /\ events_tbl[i].imported_at < now
          /\ events_tbl[i].imported_by_id \in Users
          /\ Cardinality(ImportRecords(event_imports, i)) = 1

\* C32: in every state, whatever cycles, imports and removals of imports
\* came before, each committed row has is_imported set exactly when its
\* status is 'imported'.
C32_FlagIffStatus ==
    \A i \in 1..Len(committed) :
       committed[i].is_imported <=> committed[i].status = S_IMPORTED

\* C37: a request to remove the import of a row that is not imported (its
\* is_imported is not set and its status is 'new', 'updated' or 'inactive')
\* leaves the status of the row as it was.
C37_UnimportOnlyImported ==
    [][(pc = "idle" /\ pc' = "idle") =>
          \A i \in 1..Len(events_tbl) :
             (/\ ~events_tbl[i].is_imported
              /\ events_tbl[i].status # S_IMPORTED
              /\ ~events_tbl'[i].is_imported) =>
                events_tbl'[i].status = events_tbl[i].status]_vars

\* Pages on which text of an event moves between its title and its date
\* string, the two read one after the other.
MovePages ==
    [src \in {"Eventbrite", "Meetup"} |->
        IF src = "Eventbrite"
        THEN { Item("ab", "c", None, "i1", "u1"), Item("a", "bc", None, "i1", "u1") }
        ELSE {}]

InitMoves == pages = MovePages /\ InitEngine

SpecMoves == InitMoves /\ [][NextEngine]_vars

\* C33: when a cycle has committed, every row that is not imported and
\* whose URL the cycle processed once, in the list of a completed source,
\* has the title, date_string, venue_name and description of that record.
C33_HashedFieldsFollow ==
    pc = "done" =>
      \A k \in Completed :
        \A n \in 1..Len(scraped[k].events) :
          LET ev == scraped[k].events[n]
          IN  Occurrences(ev.source_url) = 1 =>
                \A i \in Lookup(committed, ev.source_url) :
                   (~committed[i].is_imported /\ committed[i].status # S_IMPORTED) =>
                      \A key \in HashedKeys : committed[i][key] = ev[key]

\* C34: in every state, whatever cycles, imports and removals of imports
\* came before, the content_hash of each row, in the session of the cycle
\* and as committed, is the hash of the row's own title, date_string,
\* venue_name and description.
C34_HashOfStoredFields ==
    /\ \A i \in 1..Len(events_tbl) :
          events_tbl[i].content_hash = generate_content_hash(events_tbl[i])
    /\ \A i \in 1..Len(committed) :
          committed[i].content_hash = generate_content_hash(committed[i])

\* A row that a cycle updated after the cycle that inserted it (its title
\* is the changed one) and that was imported after that, while another
\* cycle has processed a record of its URL whose venue is the text 'None'.
C34_Witness ==
    /\ pc = "commit"
    /\ \E i \in 1..Len(committed) :
          /\ committed[i].title = "ab"
          /\ committed[i].first_seen_at < committed[i].last_scraped_at
          /\ committed[i].is_imported
          /\ committed[i].last_scraped_at <= committed[i].imported_at
          /\ \E k \in Completed : \E n \in 1..Len(scraped[k].events) :
                /\ scraped[k].events[n].source_url = committed[i].source_url
                /\ scraped[k].events[n].venue_name = "None"
          /\ events_tbl[i].content_hash = generate_content_hash(events_tbl[i])

\* ------------------------------------------------------ overlapping cycles
\* scheduled_scrape and POST /scraper/run both await run_all_scrapers on
\* the one scraper_manager, each with its own session; the calls interleave
\* at their awaits.  A session reads the committed rows and what it has
\* written itself, never what another session has not committed.

\* The columns in which the row new differs from the row old.
Diff(old, new) == [k \in { x \in DOMAIN new : new[x] # old[x] } |-> new[k]]

\* The columns of p with those of q set over them.
Merge(p, q) ==
    [k \in DOMAIN p \cup DOMAIN q |-> IF k \in DOMAIN q THEN q[k] ELSE p[k]]

\* The rows of tbl with the changed columns of mods.
Apply(tbl, mods) ==
    [i \in 1..Len(tbl) |->
        IF i \in DOMAIN mods THEN Merge(tbl[i], mods[i]) ELSE tbl[i]]

\* Inserted rows with the ids that follow n rows.
Renumber(rows, n) == [k \in 1..Len(rows) |-> [rows[k] EXCEPT !.id = n + k]]

\* The events table as the session of the call r reads it.
View(r) == Apply(committed, r.mods) \o Renumber(r.added, Len(committed))

\* Mutant of UniqueViolated: events.source_url has no unique index.
NeverViolated(rows, tbl) == FALSE

\* models.Event.source_url is unique: one of the rows has the URL of a row
\* of tbl.
UniqueViolated(rows, tbl) ==
    \E k \in 1..Len(rows) : rows[k].source_url \in UrlsOf(tbl)

\* The other caller.
Other(c) == CHOOSE d \in Callers : d # c

\* The call holds writes it has flushed and not committed (its ScrapeLog
\* row at least).
Writing(r) ==
    /\ r.pc \in {"loop", "scrape", "process", "flush", "commit"}
    /\ r.logs # <<>>
    /\ ~r.broken

\* The locals of the call as the loop body works on them, the table being
\* what the session read.
CtxOf(r) == [tbl |-> r.seen, results |-> r.results, urls |-> r.urls,
             logs |-> r.logs, idx |-> r.idx]

\* The rows of the table tbl, which the call r made from what it read,
\* that the flush inserts, and the ids of the rows it updates.
Fresh(r, tbl) == SubSeq(tbl, Len(r.seen) + 1, Len(tbl))

Changed(r, tbl) == { i \in 1..r.base : tbl[i] # r.seen[i] }

\* What the session of r has flushed once it has flushed tbl as well.
FlushedMods(r, tbl) ==
    [i \in DOMAIN r.mods \cup Changed(r, tbl) |->
        Merge(IF i \in DOMAIN r.mods THEN r.mods[i] ELSE NoColumns,
              Diff(r.seen[i], tbl[i]))]

FlushedAdded(r, tbl) == SubSeq(tbl, r.base + 1, Len(tbl))

\* The INSERT of a row whose URL a committed row has fails on the unique
\* index.
IntegrityError(r, tbl) == UniqueViolated(Fresh(r, tbl), committed)

\* The flush of tbl has to wait for the other call to commit or to roll
\* back: that one has inserted a row of the same URL, or updated a row
\* this flush updates.
Waits(r, o, tbl) ==
    \/ UniqueViolated(Fresh(r, tbl), o.added)
    \/ Changed(r, tbl) \cap DOMAIN o.mods # {}

\* What the loop body of the call r is about to flush.
Reconciled(r) == RunCompleted(CtxOf(r), r.idx, r.events, r.t)

\* What the call r is about to commit.
Marked(r) == mark_inactive_events(r.seen, r.urls)

\* run_all_scrapers entered by the caller c.  Each caller is followed
\* through one call: the scheduled cycle and the one triggered by hand.
StartRun(c) ==
    /\ runs[c].pc = "idle"
    /\ ~runs[c].entered
    /\ cycles' = cycles + 1
    /\ now' = now + 1
    /\ runs' = [runs EXCEPT ![c] =
                  [IdleRun EXCEPT !.pc = "loop", !.idx = 1, !.entered = TRUE]]
    /\ UNCHANGED <<pages, pc, events_tbl, committed, event_imports, results,
                   all_scraped_urls, idx, events, logs, scraped, prev_scraped>>

\* The other variables of a step of an overlapping call.
RunStep ==
    UNCHANGED <<pages, pc, now, events_tbl, event_imports, results,
                all_scraped_urls, idx, events, logs, scraped, prev_scraped, cycles>>

\* The loop takes the next scraper: its ScrapeLog is added and flushed.
OpenLogOf(c) ==
    LET r == runs[c]
    IN  /\ r.pc = "loop"
        /\ r.idx <= Len(Scrapers)
        /\ ~r.broken
        /\ runs' = [runs EXCEPT ![c].logs = Append(@, NewLog(Scrapers[r.idx], now)),
                                ![c].pc = "scrape"]
        /\ UNCHANGED committed
        /\ RunStep

\* The flush of the ScrapeLog raises: the session refuses the statement
\* after a flush that failed, or the database is locked by the writes of
\* the other call (SQLite, the default database_url).  The except clause
\* closes the log.
OpenLogRaisesOf(c) ==
    LET r == runs[c]
        r0 == [r EXCEPT !.logs = Append(@, NewLog(Scrapers[r.idx], now))]
        f == RunFailed(CtxOf(r0), r.idx, "flush failed", now)
    IN  /\ r.pc = "loop"
        /\ r.idx <= Len(Scrapers)
        /\ r.broken \/ Writing(runs[Other(c)])
        /\ runs' = [runs EXCEPT ![c] =
                      [r EXCEPT !.results = f.results, !.logs = f.logs,
                                !.idx = f.idx, !.mods = NoMods, !.added = <<>>,
                                !.broken = TRUE]]
        /\ UNCHANGED committed
        /\ RunStep

\* scraper.scrape() returns.
ScrapeOf(c) ==
    LET r == runs[c]
    IN  /\ r.pc = "scrape"
        /\ \E evs \in Listings(Scrapers[r.idx], pages[Scrapers[r.idx]],
                               MaxFound - r.results.total_found) :
              runs' = [runs EXCEPT ![c].events = evs, ![c].pc = "process"]
        /\ UNCHANGED committed
        /\ RunStep

\* scraper.scrape() raises.
ScrapeRaisesOf(c) ==
    LET r == runs[c]
        f == RunFailed(CtxOf(r), r.idx, "scrape failed", now)
    IN  /\ r.pc = "scrape"
        /\ runs' = [runs EXCEPT ![c] =
                      [r EXCEPT !.results = f.results, !.logs = f.logs,
                                !.idx = f.idx, !.pc = "loop"]]
        /\ UNCHANGED committed
        /\ RunStep

\* The loop of _process_events: its selects read what the session sees
\* now, its changes stay in the session until the flush.
ReconcileOf(c) ==
    LET r == runs[c]
    IN  /\ r.pc = "process"
        /\ runs' = [runs EXCEPT ![c].seen = View(r), ![c].base = Len(committed),
                                ![c].t = now, ![c].pc = "flush"]
        /\ UNCHANGED committed
        /\ RunStep

\* db.flush() of _process_events goes through and the try block runs to
\* its end.
FlushOf(c) ==
    LET r == runs[c]
        out == Reconciled(r)
    IN  /\ r.pc = "flush"
        /\ ~IntegrityError(r, out.tbl)
        /\ ~Waits(r, runs[Other(c)], out.tbl)
        /\ runs' = [runs EXCEPT ![c] =
                      [r EXCEPT !.results = out.results, !.urls = out.urls,
                                !.logs = out.logs, !.idx = out.idx,
                                !.mods = FlushedMods(r, out.tbl),
                                !.added = FlushedAdded(r, out.tbl),
                                !.inserted = @ \cup UrlsOf(Fresh(r, out.tbl)),
                                !.events = <<>>, !.seen = <<>>, !.base = 0,
                                !.t = 0, !.pc = "loop"]]
        /\ UNCHANGED committed
        /\ RunStep

\* db.flush() of _process_events raises, on the unique index or when its
\* wait for the other call ends (lock timeout, deadlock): the transaction
\* of the session is rolled back and the except clause closes the log.
FlushRaisesOf(c) ==
    LET r == runs[c]
        out == Reconciled(r)
        f == RunFailed(CtxOf(r), r.idx, "flush failed", now)
    IN  /\ r.pc = "flush"
        /\ IntegrityError(r, out.tbl) \/ Waits(r, runs[Other(c)], out.tbl)
        /\ runs' = [runs EXCEPT ![c] =
                      [r EXCEPT !.results = f.results, !.logs = f.logs,
                                !.idx = f.idx, !.mods = NoMods, !.added = <<>>,
                                !.events = <<>>, !.seen = <<>>, !.base = 0,
                                !.t = 0, !.broken = TRUE, !.pc = "loop"]]
        /\ UNCHANGED committed
        /\ RunStep

\* After the loop: the select of _mark_inactive_events and its loop, and
\* the count into results.
MarkInactiveOf(c) ==
    LET r == runs[c]
        r1 == [r EXCEPT !.seen = View(r), !.base = Len(committed)]
    IN  /\ r.pc = "loop"
        /\ r.idx > Len(Scrapers)
        /\ ~r.broken
        /\ runs' = [runs EXCEPT ![c] =
                      [r1 EXCEPT !.results.inactive = Marked(r1).inactive_count,
                                 !.pc = "commit"]]
        /\ UNCHANGED committed
        /\ RunStep

\* The select of _mark_inactive_events raises on a session that refuses
\* statements: the exception leaves run_all_scrapers.
MarkInactiveRaisesOf(c) ==
    LET r == runs[c]
    IN  /\ r.pc = "loop"
        /\ r.idx > Len(Scrapers)
        /\ r.broken
        /\ runs' = [runs EXCEPT ![c].pc = "raised"]
        /\ UNCHANGED committed
        /\ RunStep

\* await db.commit(): the changes of the marker are flushed and all the
\* session wrote becomes what every session reads.
CommitOf(c) ==
    LET r == runs[c]
        out == Marked(r).tbl
    IN  /\ r.pc = "commit"
        /\ ~Waits(r, runs[Other(c)], out)
        /\ committed' = Apply(committed, FlushedMods(r, out))
                            \o Renumber(FlushedAdded(r, out), Len(committed))
        /\ runs' = [runs EXCEPT ![c].mods = NoMods, ![c].added = <<>>,
                                ![c].seen = <<>>, ![c].base = 0,
                                ![c].pc = "done"]
        /\ RunStep

\* await db.commit() raises when its wait for the other call ends.
CommitRaisesOf(c) ==
    LET r == runs[c]
    IN  /\ r.pc = "commit"
        /\ Waits(r, runs[Other(c)], Marked(r).tbl)
        /\ runs' = [runs EXCEPT ![c].mods = NoMods, ![c].added = <<>>,
                                ![c].seen = <<>>, ![c].base = 0,
                                ![c].pc = "raised"]
        /\ UNCHANGED committed
        /\ RunStep

\* return results: the caller has the summary (inserted names the URLs
\* behind its count of new rows).
ReturnOf(c) ==
    LET r == runs[c]
    IN  /\ r.pc = "done"
        /\ runs' = [runs EXCEPT ![c] =
                      [IdleRun EXCEPT !.entered = TRUE, !.summaries =
                          Append(r.summaries, [results |-> r.results,
                                               inserted |-> r.inserted])]]
        /\ UNCHANGED committed
        /\ RunStep

\* The exception reaches the caller (scheduled_scrape prints it, the route
\* answers 500): the session is closed and there is no summary.
SurfacedOf(c) ==
    LET r == runs[c]
    IN  /\ r.pc = "raised"
        /\ runs' = [runs EXCEPT ![c] = [IdleRun EXCEPT !.entered = TRUE]]
        /\ UNCHANGED committed
        /\ RunStep

NextOverlap ==
    \E c \in Callers :
        \/ StartRun(c)
        \/ OpenLogOf(c)
        \/ OpenLogRaisesOf(c)
        \/ ScrapeOf(c)
        \/ ScrapeRaisesOf(c)
        \/ ReconcileOf(c)
        \/ FlushOf(c)
        \/ FlushRaisesOf(c)
        \/ MarkInactiveOf(c)
        \/ MarkInactiveRaisesOf(c)
        \/ CommitOf(c)
        \/ CommitRaisesOf(c)
        \/ ReturnOf(c)
        \/ SurfacedOf(c)

\* Pages on which the two sources list the one event, and one of them
\* under two titles.
OverlapPages ==
    [src \in {"Eventbrite", "Meetup"} |->
        IF src = "Eventbrite"
        THEN { Item("a", "", None, "i1", "u1"), Item("ab", "", None, "i1", "u1") }
        ELSE { Item("a", "", None, "i1", "u1") }]

\* The two callers are about to call; the catalog is what one cycle before
\* them has committed, in which Eventbrite listed the event or nothing.
InitOverlap ==
    /\ pages = OverlapPages
    /\ \E evs \in Listings("Eventbrite", {Item("a", "", None, "i1", "u1")}, 1) :
          committed = run_all_scrapers(<<>>,
                         <<[kind |-> "completed", events |-> evs],
                           [kind |-> "completed", events |-> <<>>]>>, 0)
    /\ events_tbl = committed
    /\ pc = "idle"
    /\ now = 0
    /\ results = NoResults
    /\ all_scraped_urls = {}
    /\ idx = 0
    /\ events = <<>>
    /\ logs = <<>>
    /\ scraped = <<>>
    /\ prev_scraped = <<>>
    /\ cycles = 1
    /\ event_imports = {}
    /\ runs = NoRuns

SpecOverlap == InitOverlap /\ [][NextOverlap]_vars

\* The summaries the callers have been returned: caller and position.
Summaries ==
    UNION { { <<c, k>> : k \in 1..Len(runs[c].summaries) } : c \in Callers }

SummaryOf(ck) == runs[ck[1]].summaries[ck[2]]

\* C35: with the two callers' cycles interleaved at their awaits, no two
\* committed rows have the same source_url, no URL is among the rows counted
\* as new of two summaries, and the count of new rows of a summary is the
\* number of URLs it inserted.
C35_OverlapSafe ==
    /\ UniqueUrls(committed)
    /\ \A s1, s2 \in Summaries :
          s1 # s2 => SummaryOf(s1).inserted \cap SummaryOf(s2).inserted = {}
    /\ \A s1 \in Summaries :
          SummaryOf(s1).results.new = Cardinality(SummaryOf(s1).inserted)

\* One caller has been returned a summary that counts a URL as new and the
\* row is committed; the other caller's cycle, running at the same time,
\* read no row for the URL, made one of its record and is about to flush
\* it against the unique index.
C35_Witness ==
    \E c \in Callers :
       LET d == Other(c)
       IN  \E s1 \in Summaries : \E u \in SummaryOf(s1).inserted :
              /\ s1[1] = c
              /\ u \in UrlsOf(committed)
              /\ runs[d].pc = "flush"
              /\ Lookup(runs[d].seen, u) = {}
              /\ u \in UrlsOf(Fresh(runs[d], Reconciled(runs[d]).tbl))
              /\ IntegrityError(runs[d], Reconciled(runs[d]).tbl)

\* ------------------------------------------- a cycle whose flush fails
\* The db.flush() that ends _process_events raises: the session rolls its
\* transaction back, so the rows the cycle added or changed are gone from
\* it, and refuses every statement after that; the except clause of the
\* loop appends the message and closes the log.
FlushRaises ==
    /\ pc = "process"
    /\ LET c == RunFailed(Ctx, idx, "flush failed", now)
       IN  /\ results' = c.results
           /\ all_scraped_urls' = c.urls
           /\ logs' = c.logs
           /\ idx' = c.idx
    /\ events_tbl' = committed
    /\ pc' = "broken"
    /\ UNCHANGED <<runs, event_imports, pages, now, committed, events, scraped, prev_scraped,
                   cycles>>

\* The loop goes on in the session that has been rolled back: the flush
\* of the next ScrapeLog raises before scrape() is called, and the except
\* clause closes that log too.
OpenLogRefused ==
    /\ pc = "broken"
    /\ idx <= Len(Scrapers)
    /\ scraped' = Append(scraped, [source_name |-> Scrapers[idx],
                                   raised |-> TRUE, events |-> <<>>])
    /\ LET c == RunFailed([Ctx EXCEPT !.logs = Append(@, NewLog(Scrapers[idx], now))],
                          idx, "session rolled back", now)
       IN  /\ results' = c.results
           /\ all_scraped_urls' = c.urls
           /\ logs' = c.logs
           /\ idx' = c.idx
    /\ pc' = "broken"
    /\ UNCHANGED <<runs, event_imports, pages, now, events_tbl, committed, events, prev_scraped,
                   cycles>>

\* After the loop the select of _mark_inactive_events is refused as well:
\* the exception leaves run_all_scrapers before the commit.
MarkInactiveRefused ==
    /\ pc = "broken"
    /\ idx > Len(Scrapers)
    /\ pc' = "raised"
    /\ UNCHANGED <<runs, event_imports, pages, now, events_tbl, committed, results, all_scraped_urls,
                   idx, events, logs, scraped, prev_scraped, cycles>>

\* The cycles, a failed flush ending the session's transaction.
NextSession ==
    \/ StartCycle
    \/ OpenLog
    \/ Scrape
    \/ ScrapeRaises
    \/ Process
    \/ FlushRaises
    \/ OpenLogRefused
    \/ MarkInactiveRefused
    \/ MarkInactive
    \/ Commit
    \/ Return
    \/ Surfaced

SpecSession == Init /\ [][NextSession]_vars

\* Rows the Reconciler has inserted or updated in the cycle: the rows the
\* session holds beyond the committed ones, and the committed rows it
\* reached in this cycle and gave another content or took out of
\* 'inactive'.
ReconciledIds ==
    { i \in 1..Len(events_tbl) :
         \/ i > Len(committed)
         \/ /\ events_tbl[i].last_scraped_at = now
            /\ \/ events_tbl[i].content_hash # committed[i].content_hash
               \/ (committed[i].status = S_INACTIVE /\ events_tbl[i].status = S_UPDATED) }

\* C36: the step of the Staleness Marker, which the commit of the cycle
\* follows, leaves no row with status 'inactive' whose URL a source that
\* completed returned in the cycle, and sets no row to 'inactive' that the
\* Reconciler inserted or updated in the cycle.
C36_ListedStaysActive ==
    [][(pc = "loop" /\ pc' = "commit") =>
          /\ \A i \in 1..Len(events_tbl') :
                events_tbl'[i].source_url \in CompletedUrls =>
                   events_tbl'[i].status # S_INACTIVE
          /\ \A i \in ReconciledIds :
                events_tbl'[i].status = S_INACTIVE =>
                   events_tbl[i].status = S_INACTIVE]_vars

\* The Staleness Marker has set a row to 'inactive' in a cycle in which a
\* source failed and the Reconciler took another row, returned by a source
\* that completed, out of 'inactive' or gave it another content.
C36_Witness ==
    /\ pc = "commit"
    /\ \E k \in 1..Len(logs) : logs[k].status = "error"
    /\ \E j \in 1..Len(committed) :
          committed[j].status # S_INACTIVE /\ events_tbl[j].status = S_INACTIVE
    /\ \E i \in ReconciledIds :
          /\ i <= Len(committed)
          /\ events_tbl[i].source_url \in CompletedUrls
          /\ events_tbl[i].status = S_UPDATED

=============================================================================
